---- MODULE Spec2Model ----
(***************************************************************************)
(* A model of the goexmpp client pipeline: the transport pump, the XML     *)
(* reader, the stream filter (readStream) with its negotiation handlers,   *)
(* the outbound gate (writeStream) and the filter chain towards the        *)
(* application.  Every Go task is a process with a position; an unbuffered *)
(* channel send is a position of the sender and completes in the step in   *)
(* which the receiver takes the value.                                     *)
(***************************************************************************)
EXTENDS Integers, Sequences, FiniteSets, TLC

\* ------------------------------------------------------------------ bounds
\* Inbound XML values the stream filter consumes in one run.
MaxIn == 3
\* Stanzas the application submits on client.Out in one run.
MaxApp == 2
\* Handler registrations the application makes in one run.
MaxReg == 2
MaxSrv == 3
MaxCalls == 2
MaxUpd == 4
MaxJidLen == 5
MaxPart == 2
MaxKids == 2

\* --------------------------------------------------------------- constants
Version == "1.0"
NsStream == "http://etherx.jabber.org/streams"
NsTLS == "urn:ietf:params:xml:ns:xmpp-tls"
NsSASL == "urn:ietf:params:xml:ns:xmpp-sasl"
NsClient == "jabber:client"

\* Capacity of the Client.handlers channel.
HandlersCap == 100

\* The control values of the outbound gate.
PAUSE == 0
RESUME == 1
STOP == -1

\* cl.socket: NilSocket is the nil interface, 0 the TCP connection, n > 0 the
\* connection wrapped in n TLS layers.
NilSocket == -1
TcpSocket == 0

\* The ids of stanzas: 0 is the empty id attribute, n > 0 is "id_n".
NoId == 0
Ids == 1..2

\* ------------------------------------------------------------------ values
\* An XML element as it arrives from the server, reduced to what the code
\* inspects: its name, the stanza attributes id and type, the children of
\* <stream:features>, the content of a SASL challenge and the <bind> payload
\* of an iq.  typ is set by readXml.
Blank ==
    [typ |-> "", space |-> "", local |-> "", id |-> NoId, type |-> "",
     to |-> <<>>, version |-> "",
     starttls |-> FALSE, mechs |-> <<>>, bind |-> FALSE, session |-> FALSE,
     b64ok |-> TRUE, qop |-> <<>>, rspauth |-> "", mechanism |-> "",
     nested |-> "none", jid |-> <<>>, resource |-> <<>>, app |-> 0,
     items |-> <<>>]

El(space, local) == [Blank EXCEPT !.space = space, !.local = local]

ElFeatures(st, m, b, s) ==
    [El(NsStream, "features") EXCEPT
        !.starttls = st, !.mechs = m, !.bind = b, !.session = s]

ElChallenge(ok, qop, rsp) ==
    [El(NsSASL, "challenge") EXCEPT !.b64ok = ok, !.qop = qop, !.rspauth = rsp]

ElStanza(local, id, type) ==
    [El(NsClient, local) EXCEPT !.id = id, !.type = type]

\* An iq carrying a <bind> payload whose <jid> child is j ("" when the child
\* is missing or empty).
ElBindIq(id, type, j) ==
    [ElStanza("iq", id, type) EXCEPT !.nested = "bind", !.jid = j]

\* The value on a channel slot or in a local variable that holds nothing.
Nil == [Blank EXCEPT !.typ = "nil"]

StanzaTypes == {"Iq", "Message", "Presence"}

\* A test that would take every value for a stanza, for comparison.
IsValue(v) == TRUE

\* x.(Stanza): the values that implement Stanza.
IsStanza(v) == v.typ \in StanzaTypes

\* A handler callback: the bind closure, or a callback of the application
\* that returns ret.  tok names the registration.
NoF == [kind |-> "nil", tok |-> 0, ret |-> FALSE]
AppF(tok, ret) == [kind |-> "app", tok |-> tok, ret |-> ret]
BindF(tok) == [kind |-> "bind", tok |-> tok, ret |-> FALSE]
\* fetchRoster's closure for the request with id tok, and a callback of the
\* application that receives from client.In before it returns.
RosterF(tok) == [kind |-> "roster", tok |-> tok, ret |-> FALSE]
WaitF(tok) == [kind |-> "wait", tok |-> tok, ret |-> FALSE]

\* ------------------------------------------------------------ the XML reader
\* The switch of readXml on the element's namespace and local name.
readXmlType(space, local) ==
    CASE space = NsStream /\ local = "stream" -> "stream"
      [] (space = "stream" \/ space = NsStream) /\ local = "error" -> "streamError"
      [] space = NsStream /\ local = "features" -> "Features"
      [] space = NsTLS /\ local \in {"proceed", "failure"} -> "starttls"
      [] space = NsSASL /\ local \in {"challenge", "failure", "success"} -> "auth"
      [] space = NsClient /\ local = "iq" -> "Iq"
      [] space = NsClient /\ local = "message" -> "Message"
      [] space = NsClient /\ local = "presence" -> "Presence"
      [] OTHER -> "Generic"

readXml(e) == [e EXCEPT !.typ = readXmlType(e.space, e.local)]

\* ------------------------------------------------------------------- JIDs
\* A JID string is a sequence of characters.  JIDSet is JID.Set: the match of
\* ^(([^@/]+)@)?([^@/]+)(/([^@/]+))?$ and the three submatches.
Positions(str, ch) == {i \in 1..Len(str) : str[i] = ch}

\* A match that would not look at what stands between "@" and "/", for
\* comparison.
JIDMatchesLoose(str) ==
    Cardinality(Positions(str, "@")) <= 1 /\ Cardinality(Positions(str, "/")) <= 1

JIDMatches(str) ==
    LET at == Positions(str, "@")
        sl == Positions(str, "/")
        a == IF at = {} THEN 0 ELSE CHOOSE i \in at : TRUE
        e == IF sl = {} THEN Len(str) + 1 ELSE CHOOSE i \in sl : TRUE
    IN  /\ Cardinality(at) <= 1
        /\ Cardinality(sl) <= 1
        /\ at # {} => a > 1
        /\ a + 1 < e
        /\ sl # {} => e < Len(str)

\* stringprep.Nodeprep and stringprep.Resourceprep on the characters used
\* here: Nodeprep folds case, Resourceprep keeps it.
FoldCase(ch) == IF ch = "U" THEN "u" ELSE ch
Nodeprep(str) == [i \in 1..Len(str) |-> FoldCase(str[i])]
Resourceprep(str) == str

\* A String that would leave out the resource, for comparison.
JIDStringNoResource(j) ==
    IF j.Node # <<>> THEN j.Node \o <<"@">> \o j.Domain ELSE j.Domain

\* JID.String
JIDString(j) ==
    LET result == IF j.Node # <<>> THEN j.Node \o <<"@">> \o j.Domain
                  ELSE j.Domain
    IN  IF j.Resource # <<>> THEN result \o <<"/">> \o j.Resource ELSE result

JIDSet(jid, str) ==
    LET at == Positions(str, "@")
        sl == Positions(str, "/")
        a == IF at = {} THEN 0 ELSE CHOOSE i \in at : TRUE
        e == IF sl = {} THEN Len(str) + 1 ELSE CHOOSE i \in sl : TRUE
    IN  IF ~JIDMatches(str)
        THEN [ok |-> FALSE, jid |-> jid]
        ELSE [ok |-> TRUE,
              jid |-> [Node |-> Nodeprep(SubSeq(str, 1, a - 1)),
                       Domain |-> Nodeprep(SubSeq(str, a + 1, e - 1)),
                       Resource |-> Resourceprep(SubSeq(str, e + 1, Len(str)))]]

\* ------------------------------------------------- the negotiation handlers
\* A handler runs on the stream filter's task.  Its result is the Client it
\* leaves and the point at which the task continues: "select" (back in the
\* loop of readStream) or a blocking send ("xmlOut", "handlers", "control",
\* "cliOut") or the first step of the TLS swap ("tlsAdd1").  out is the value
\* of a pending send on xmlOut or cliOut, hout the handler of a pending send
\* on Client.handlers, pend the value sent on xmlOut after that; close tells
\* that Client.Close was called.
NoH == [id |-> NoId, f |-> NoF]

Res(c, pc, out) ==
    [cl |-> c, pc |-> pc, out |-> out, hout |-> NoH, pend |-> Nil,
     close |-> FALSE]

\* &stream{To: cl.Jid.Domain, Version: Version}
StreamHeader(c) ==
    [Blank EXCEPT !.typ = "stream", !.to = c.Jid.Domain, !.version = Version]

\* &starttls{XMLName: xml.Name{Space: NsTLS, Local: "starttls"}}
StarttlsReq == [El(NsTLS, "starttls") EXCEPT !.typ = "starttls"]

\* &auth{XMLName: {NsSASL, local}}
AuthOut(local) == [El(NsSASL, local) EXCEPT !.typ = "auth"]

\* strings.ToLower on the mechanism names the model uses.
ToLower(m) ==
    CASE m \in {"DIGEST-MD5", "Digest-MD5", "digest-md5"} -> "digest-md5"
      [] m \in {"PLAIN", "plain"} -> "plain"
      [] OTHER -> m

\* The expected rspauth saslDigest1 stores: a non-empty hex string.
SaslNext == "rspauth-expected"

handleStream(c) == Res(c, "select", Nil)

\* A handler that would only log the stream error, for comparison.
logStreamError(c) == Res(c, "select", Nil)

handleStreamError(c) == [Res(c, "select", Nil) EXCEPT !.close = TRUE]

chooseSasl(c, fe) ==
    LET digestMd5 == \E i \in 1..Len(fe.mechs) : ToLower(fe.mechs[i]) = "digest-md5"
    IN  IF digestMd5
        THEN Res(c, "xmlOut", [AuthOut("auth") EXCEPT !.mechanism = "DIGEST-MD5"])
        ELSE Res(c, "select", Nil)

\* bind: takes an id from cl.Id, registers the bind closure for it with
\* HandleStanza (a send on Client.handlers), then sends the iq on xmlOut.
bind(c) ==
    LET id == c.Id
        msg == [Blank EXCEPT !.typ = "Iq", !.local = "iq", !.type = "set",
                             !.id = id, !.nested = "bind",
                             !.resource = c.Jid.Resource]
    IN  [Res([c EXCEPT !.Id = id + 1], "handlers", Nil) EXCEPT
            !.hout = [id |-> id, f |-> BindF(id)], !.pend = msg]

\* A handler that would try bind before the SASL mechanisms, for comparison.
handleFeaturesBindFirst(c, fe) ==
    LET c1 == [c EXCEPT !.Features = fe]
    IN  IF fe.starttls THEN Res(c1, "xmlOut", StarttlsReq)
        ELSE IF fe.bind THEN bind(c1)
        ELSE IF Len(fe.mechs) > 0 THEN chooseSasl(c1, fe)
        ELSE Res(c1, "select", Nil)

handleFeatures(c, fe) ==
    LET c1 == [c EXCEPT !.Features = fe]
    IN  IF fe.starttls THEN Res(c1, "xmlOut", StarttlsReq)
        ELSE IF Len(fe.mechs) > 0 THEN chooseSasl(c1, fe)
        ELSE IF fe.bind THEN bind(c1)
        ELSE Res(c1, "select", Nil)

\* handleTls up to its first blocking point: tcp := cl.socket; cl.socket = nil.
handleTls(c, t) ==
    Res([c EXCEPT !.tcp = c.socket, !.socket = NilSocket], "tlsAdd1", Nil)

\* parseSasl on the decoded challenge, for the two keys the client reads.
\* The value of a directive is given as its pieces: tokens, and the separators
\* "," and " " between them.  The value group [^",]+ of the regular
\* expression ends at the first comma.
parseSaslValue(raw) ==
    LET commas == {i \in 1..Len(raw) : raw[i] = ","}
    IN  IF commas = {} THEN raw
        ELSE SubSeq(raw, 1, (CHOOSE i \in commas : \A j \in commas : i <= j) - 1)

parseSasl(srv) == [qop |-> parseSaslValue(srv.qop), rspauth |-> srv.rspauth]

\* strings.Fields: the pieces between white space.
Fields(v) == SelectSeq(v, LAMBDA t : t # " ")

\* A responder that would answer the first challenge whatever its qop, for
\* comparison.
saslDigest1AnyQop(c, srvMap) ==
    Res([c EXCEPT !.saslExpected = SaslNext], "xmlOut",
        [AuthOut("response") EXCEPT !.rspauth = "digest"])

saslDigest1(c, srvMap) ==
    LET hasAuth == \E i \in 1..Len(Fields(srvMap.qop)) : Fields(srvMap.qop)[i] = "auth"
    IN  IF ~hasAuth THEN Res(c, "select", Nil)
        ELSE Res([c EXCEPT !.saslExpected = SaslNext], "xmlOut",
                 [AuthOut("response") EXCEPT !.rspauth = "digest"])

\* A responder that would not compare rspauth, for comparison.
saslDigest2NoCheck(c, srvMap) == Res(c, "xmlOut", AuthOut("response"))

saslDigest2(c, srvMap) ==
    IF c.saslExpected = srvMap.rspauth
    THEN Res(c, "xmlOut", AuthOut("response"))
    ELSE Res(c, "xmlOut", [AuthOut("failure") EXCEPT !.nested = "abort"])

\* A handler that would keep cl.Features on success, for comparison.
handleSaslKeepFeatures(c, srv) ==
    CASE srv.local = "challenge" ->
            IF ~srv.b64ok THEN Res(c, "select", Nil)
            ELSE IF c.saslExpected = "" THEN saslDigest1(c, parseSasl(srv))
            ELSE saslDigest2(c, parseSasl(srv))
      [] srv.local = "success" -> Res(c, "xmlOut", StreamHeader(c))
      [] OTHER -> Res(c, "select", Nil)

handleSasl(c, srv) ==
    CASE srv.local = "challenge" ->
            IF ~srv.b64ok THEN Res(c, "select", Nil)
            ELSE IF c.saslExpected = "" THEN saslDigest1(c, parseSasl(srv))
            ELSE saslDigest2(c, parseSasl(srv))
      [] srv.local = "failure" -> Res(c, "select", Nil)
      [] srv.local = "success" ->
            Res([c EXCEPT !.Features = Nil], "xmlOut", StreamHeader(c))
      [] OTHER -> Res(c, "select", Nil)

\* A closure that would not look at the type of the reply, for comparison.
bindReplyAnyType(c, st) ==
    LET parsed == JIDSet([Node |-> <<>>, Domain |-> <<>>, Resource |-> <<>>], st.jid)
    IN  IF st.nested # "bind" THEN Res(c, "select", Nil)
        ELSE IF st.jid = <<>> THEN Res(c, "select", Nil)
        ELSE IF ~parsed.ok THEN Res(c, "select", Nil)
        ELSE Res([c EXCEPT !.Jid = parsed.jid], "control", Nil)

\* The closure bind registers: on a usable reply it replaces cl.Jid and
\* calls bindDone, which blocks sending RESUME on the gate's control channel;
\* it returns false in every case.
bindReply(c, st) ==
    LET parsed == JIDSet([Node |-> <<>>, Domain |-> <<>>, Resource |-> <<>>], st.jid)
    IN  IF st.type = "error" THEN Res(c, "select", Nil)
        ELSE IF st.nested # "bind" THEN Res(c, "select", Nil)
        ELSE IF st.jid = <<>> THEN Res(c, "select", Nil)
        ELSE IF ~parsed.ok THEN Res(c, "select", Nil)
        ELSE Res([c EXCEPT !.Jid = parsed.jid], "control", Nil)

\* ------------------------------------------------- the stream filter's switch
\* The registry of readStream is a Go map: a missing key reads as nil.
Lookup(hs, id) == IF id \in DOMAIN hs THEN hs[id] ELSE NoF

\* handlers[h.id] = h.f
putHandler(hs, h) == (h.id :> h.f) @@ hs

\* A registry that would keep the handler, for comparison.
keepHandler(hs, id) == hs

\* handlers[st.GetId()] = nil
takeHandler(hs, id) == (id :> NoF) @@ hs

\* iq := &Iq{From: client.Jid.String(), Id: <- Id, Type: "get",
\*           Nested: RosterQuery{}}
FetchRequest(id) ==
    [Blank EXCEPT !.typ = "Iq", !.local = "iq", !.id = id, !.type = "get",
                  !.nested = "roster"]

\* A closure that would send no item, for comparison.
fetchRosterClosureNoItems(iq, st) ==
    IF st.nested # "roster" THEN [pc |-> "fetchCh", err |-> "not query"]
    ELSE [pc |-> "fetchCh", err |-> ""]

\* fetchRoster's closure f(st), iq being the request fetchRoster built: where
\* the closure blocks first, and the error it sends on ch.  The test of the
\* type is made on iq.
fetchRosterClosure(iq, st) ==
    IF iq.type = "error" THEN [pc |-> "fetchCh", err |-> "iq.Error"]
    ELSE IF st.nested # "roster" THEN [pc |-> "fetchCh", err |-> "not query"]
    ELSE IF st.items = <<>> THEN [pc |-> "fetchCh", err |-> ""]
    ELSE [pc |-> "fetchItems", err |-> ""]

\* A filter that would ignore the handler's verdict, for comparison.
invokeAndSend(c, f, st) ==
    IF f.kind = "bind" THEN [bindReply(c, st) EXCEPT !.pc = "cliOut", !.out = st]
    ELSE Res(c, "cliOut", st)

\* send = f(st), and what follows it: the stanza goes to cliOut iff send.
invoke(c, f, st) ==
    IF f.kind = "bind" THEN bindReply(c, st)
    ELSE IF f.kind = "roster"
    THEN Res(c, fetchRosterClosure(FetchRequest(f.tok), st).pc, Nil)
    ELSE IF f.kind = "wait" THEN Res(c, "handlerIn", Nil)
    ELSE IF f.ret THEN Res(c, "cliOut", st)
    ELSE Res(c, "select", Nil)

Disp(r, hs, f) ==
    [cl |-> r.cl, pc |-> r.pc, out |-> r.out, hout |-> r.hout, pend |-> r.pend,
     close |-> r.close, handlers |-> hs, f |-> f]

\* The body of "case x := <- srvIn" for a non-nil x: the Client, the registry
\* and the task's position after it, and the handler f it invoked (NoF when
\* it invoked none).
readStream(c, hs, obj) ==
    CASE obj.typ = "stream" -> Disp(handleStream(c), hs, NoF)
      [] obj.typ = "streamError" -> Disp(handleStreamError(c), hs, NoF)
      [] obj.typ = "Features" -> Disp(handleFeatures(c, obj), hs, NoF)
      [] obj.typ = "starttls" -> Disp(handleTls(c, obj), hs, NoF)
      [] obj.typ = "auth" -> Disp(handleSasl(c, obj), hs, NoF)
      [] OTHER ->
            IF ~IsStanza(obj) THEN Disp(Res(c, "select", Nil), hs, NoF)
            ELSE IF Lookup(hs, obj.id) # NoF
                 THEN Disp(invoke(c, Lookup(hs, obj.id), obj),
                           takeHandler(hs, obj.id), Lookup(hs, obj.id))
                 ELSE Disp(Res(c, "cliOut", obj), hs, NoF)

\* tryClose: closes the io.Closers and the channels of interface{} values
\* among xs; its type switch matches no channel of Stanza values.
StanzaChans == {"In", "Out", "cliOut", "top"}
tryClose(cs, xs) == cs \cup (xs \ StanzaChans)

\* Client.Close: tryClose(c.In, c.Out, c.TextOut)
Close(cs) == tryClose(cs, {"In", "Out"})

\* ------------------------------------------------------------------- state
VARIABLES
    cl,          \* the Client: socket, socketSync, Features, saslExpected, Jid,
                 \* Id (the next id of the generator), handlers (the channel),
                 \* and handleTls's locals tcp and tls
    handlers,    \* readStream's registry
    pcF, x, out, hout, pend,   \* the stream filter's task
    invoked,     \* the handlers invoked so far, in order, with the stanza
    nIn,         \* inbound values consumed so far
    pcW, input, wx,            \* writeStream: position, input, stanza held
    pcRT, rsock,               \* readTransport: position, socket of its Read
    pcWX, vWX,                 \* writeXml: position, value being marshalled
    pcWT, vWT,                 \* writeTransport: position, bytes held
    pcRX,                      \* readXml: position
    pcFB, fbData,              \* filterBottom
    pcFT, ftData,              \* filterTop
    closed,      \* the channels, pipes and sockets closed so far
    srvGone,     \* the server has closed the connection
    wire,        \* what was written to the socket, in order
    appSend,     \* the stanza the application is blocked sending on client.Out
    nApp, nReg,  \* stanzas submitted and handlers registered by the application
    appIn,       \* what the application received on client.In, in order
    resumeRaised,\* bindDone has been called
    closeCalls,  \* calls of Client.Close so far
    restarts,    \* completed TLS swaps and SASL successes so far
    panicked,    \* the runtime panic that ended the process, "" if none
    nc,          \* NewClient's locals: position, srvs, the loop index, tcp,
                 \* err, the loop body's own err, the dials made, the result
    topFilter,   \* filterTop's parameter topFilter: the channel it reads
    rf,          \* the roster filter's task: position, its channel in, the
                 \* stanza it holds, the items it has still to send
    fr,          \* feedRoster: position, the map roster, the slice snapshot
    slices,      \* the slices feedRoster made, by address
    got,         \* what Roster returned to the application, call by call
    applied,     \* the items feedRoster received on rosterUpdate, in order
    replied,     \* the ids of the replies the filter sent on client.Out
    fwd,         \* the stanzas readStream sent on cliOut, in order
    fx,          \* fetchRoster and its closure: position, the request's id,
                 \* the items the closure has sent, the error returned, the
                 \* stanza the closure ran for
    jid, jidVal, jidOk,  \* a JID, the string given to its Set, what Set returned
    fnArg, fnRes         \* the argument of a function of structs.go or of
                         \* parseExtended, and what the call returned

filterVars == <<pcF, x, out, hout, pend>>
gateVars == <<pcW, input, wx>>
readerVars == <<pcRT, rsock>>
writerVars == <<pcWX, vWX, pcWT, vWT>>
chainVars == <<pcFB, fbData, pcFT, ftData>>
appVars == <<appSend, nApp, nReg, appIn>>
histVars == <<invoked, nIn, resumeRaised, closeCalls, restarts>>
rosterVars == <<rf, fr, slices, got, applied, replied>>
pureVars == <<jid, jidVal, jidOk, fnArg, fnRes>>
extVars == <<nc, topFilter, rosterVars, fwd, fx, pureVars>>

vars == <<cl, handlers, filterVars, gateVars, readerVars, writerVars, pcRX,
          chainVars, closed, srvGone, wire, appVars, histVars, panicked,
          extVars>>

JidUserHost == <<"u", "@", "h">>
JidBound == <<"u", "@", "h", "/", "r">>
JidBad == <<"u", "@", "@", "h">>

\* A gate that would start open, for comparison.
writeStreamInputOpen == "cliIn"

\* var input <-chan Stanza: the gate starts paused.
writeStreamInput0 == "nil"

\* NewClient's locals.  A target of the lookup is what its resolution and its
\* dial will do; tcp is the index of the target whose connection it holds,
\* NoConn for nil; err and errLoop are "" for nil.
NoConn == 0
Targets == {"noaddr", "refused", "ok"}
NewClientCalled ==
    [pc |-> "lookup", srvs |-> <<>>, i |-> 1, tcp |-> NoConn, err |-> "",
     errLoop |-> "", dials |-> <<>>,
     ret |-> [client |-> "", err |-> "", conn |-> NoConn]]
NewClientReturned ==
    [NewClientCalled EXCEPT
        !.pc = "returned", !.srvs = <<"ok">>, !.i = 2, !.tcp = 1,
        !.dials = <<[target |-> 1, ok |-> TRUE]>>,
        !.ret = [client |-> "client", err |-> "", conn |-> 1]]

\* fetchRoster before it is called.
FetchOff == [pc |-> "off", id |-> NoId, k |-> 0, ret |-> "", reply |-> Nil]

\* No call of JID.Set.
NoJID == [Node |-> <<>>, Domain |-> <<>>, Resource |-> <<>>]
NoCall == [fn |-> "none"]
NotReturned == [done |-> FALSE]
JidInit == jid = NoJID /\ jidVal = <<>> /\ jidOk = "none"
FnInit == fnArg = NoCall /\ fnRes = NotReturned
PureInit == JidInit /\ FnInit

\* The roster extension before startRosterFilter is called.
NoSlice == 0
EmptyRoster == <<>>
ExtensionInit ==
    /\ topFilter = "bottom"
    /\ rf = [pc |-> "start", in |-> "nil", st |-> Nil, items |-> <<>>,
             rosterUpdate |-> "nil"]
    /\ fr = [pc |-> "off", roster |-> EmptyRoster, snapshot |-> NoSlice]
    /\ slices = <<>> /\ got = <<>> /\ applied = <<>> /\ replied = <<>>
    /\ fwd = <<>>
    /\ fx = FetchOff

\* The state NewClient leaves: the tasks started, the initial stream header
\* sent on xmlOut.
TasksClient ==
    [socket |-> TcpSocket, socketSync |-> 0, Features |-> Nil,
     saslExpected |-> "", Id |-> 1, handlers |-> <<>>,
     Jid |-> JIDSet([Node |-> <<>>, Domain |-> <<>>, Resource |-> <<>>],
                    JidUserHost).jid,
     tcp |-> NilSocket, tls |-> NilSocket]

TasksInit ==
    /\ cl = TasksClient
    /\ handlers = <<>>
    /\ pcF = "select" /\ x = Nil /\ out = Nil /\ hout = NoH /\ pend = Nil
    /\ invoked = <<>> /\ nIn = 0
    /\ pcW = "select" /\ input = writeStreamInput0 /\ wx = Nil
    /\ pcRT = "check" /\ rsock = NilSocket
    /\ pcWX = "marshal" /\ vWX = StreamHeader([Jid |-> [Domain |-> <<"h">>]])
    /\ pcWT = "read" /\ vWT = Nil
    /\ pcRX = "run"
    /\ pcFB = "recv" /\ fbData = Nil /\ pcFT = "select" /\ ftData = Nil
    /\ closed = {} /\ srvGone = FALSE
    /\ wire = <<>>
    /\ appSend = Nil /\ nApp = 0 /\ nReg = 0 /\ appIn = <<>>
    /\ resumeRaised = FALSE /\ closeCalls = 0 /\ restarts = 0
    /\ panicked = ""

Init ==
    TasksInit /\ nc = NewClientReturned /\ ExtensionInit /\ PureInit

\* NewClient has just been called.
InitDial ==
    TasksInit /\ nc = NewClientCalled /\ ExtensionInit /\ PureInit

Running == panicked = ""

\* ------------------------------------------------------- the stream filter
\* case h := <- cl.handlers
ReadStreamHandler ==
    /\ Running /\ pcF = "select" /\ cl.handlers # <<>>
    /\ handlers' = putHandler(handlers, Head(cl.handlers))
    /\ cl' = [cl EXCEPT !.handlers = Tail(@)]
    /\ UNCHANGED <<filterVars, gateVars, readerVars, writerVars, pcRX, chainVars,
                   closed, srvGone, wire, appVars, histVars, panicked>>
    /\ UNCHANGED extVars

\* case x := <- srvIn, for the value readXml made of the element e
ReadStreamRecv(e) ==
    /\ Running /\ pcF = "select" /\ pcRX = "run" /\ nIn < MaxIn
    /\ LET obj == readXml(e)
           r == readStream(cl, handlers, obj)
       IN  /\ x' = obj
           /\ cl' = r.cl
           /\ handlers' = r.handlers
           /\ pcF' = r.pc /\ out' = r.out /\ hout' = r.hout /\ pend' = r.pend
           /\ invoked' = IF r.f = NoF THEN invoked
                         ELSE Append(invoked, [f |-> r.f, id |-> obj.id])
           /\ closed' = IF r.close THEN Close(closed) ELSE closed
           /\ closeCalls' = IF r.close THEN closeCalls + 1 ELSE closeCalls
           /\ resumeRaised' = (resumeRaised \/ r.pc = "control")
           /\ restarts' = IF obj.typ = "auth" /\ obj.local = "success"
                          THEN restarts + 1 ELSE restarts
    /\ nIn' = nIn + 1
    /\ UNCHANGED <<gateVars, readerVars, writerVars, pcRX, chainVars, srvGone,
                   wire, appVars, panicked>>
    /\ UNCHANGED extVars

\* HandleStanza called by bind on the filter's task: cl.handlers <- h, then
\* cl.xmlOut <- msg.
FilterSendHandlers ==
    /\ Running /\ pcF = "handlers" /\ Len(cl.handlers) < HandlersCap
    /\ cl' = [cl EXCEPT !.handlers = Append(@, hout)]
    /\ pcF' = "xmlOut" /\ out' = pend /\ hout' = NoH /\ pend' = Nil
    /\ UNCHANGED <<handlers, x, gateVars, readerVars, writerVars, pcRX, chainVars,
                   closed, srvGone, wire, appVars, histVars, panicked>>
    /\ UNCHANGED extVars

\* handleTls: cl.socketSync.Add(1)
TlsAdd1 ==
    /\ Running /\ pcF = "tlsAdd1"
    /\ cl' = [cl EXCEPT !.socketSync = @ + 1]
    /\ pcF' = "tlsWait1"
    /\ UNCHANGED <<handlers, x, out, hout, pend, gateVars, readerVars, writerVars,
                   pcRX, chainVars, closed, srvGone, wire, appVars, histVars,
                   panicked>>
    /\ UNCHANGED extVars

\* A handleTls that would wrap the socket without waiting, for comparison.
TlsWrapNoWait ==
    /\ Running /\ pcF = "tlsWait1"
    /\ cl' = [cl EXCEPT !.tls = cl.tcp + 1]
    /\ pcF' = "tlsAdd2"
    /\ UNCHANGED <<handlers, x, out, hout, pend, gateVars, readerVars, writerVars,
                   pcRX, chainVars, closed, srvGone, wire, appVars, histVars,
                   panicked>>
    /\ UNCHANGED extVars

\* handleTls: cl.socketSync.Wait() returns; tls := tls.Client(tcp, nil)
TlsWait1 ==
    /\ Running /\ pcF = "tlsWait1" /\ cl.socketSync = 0
    /\ cl' = [cl EXCEPT !.tls = cl.tcp + 1]
    /\ pcF' = "tlsAdd2"
    /\ UNCHANGED <<handlers, x, out, hout, pend, gateVars, readerVars, writerVars,
                   pcRX, chainVars, closed, srvGone, wire, appVars, histVars,
                   panicked>>
    /\ UNCHANGED extVars

\* handleTls: cl.socketSync.Add(1)
TlsAdd2 ==
    /\ Running /\ pcF = "tlsAdd2"
    /\ cl' = [cl EXCEPT !.socketSync = @ + 1]
    /\ pcF' = "tlsPublish"
    /\ UNCHANGED <<handlers, x, out, hout, pend, gateVars, readerVars, writerVars,
                   pcRX, chainVars, closed, srvGone, wire, appVars, histVars,
                   panicked>>
    /\ UNCHANGED extVars

\* handleTls: cl.socket = tls
TlsPublish ==
    /\ Running /\ pcF = "tlsPublish"
    /\ cl' = [cl EXCEPT !.socket = cl.tls]
    /\ pcF' = "tlsWait2"
    /\ UNCHANGED <<handlers, x, out, hout, pend, gateVars, readerVars, writerVars,
                   pcRX, chainVars, closed, srvGone, wire, appVars, histVars,
                   panicked>>
    /\ UNCHANGED extVars

\* handleTls: the second Wait returns; cl.Features = nil; cl.xmlOut <- hsOut
TlsWait2 ==
    /\ Running /\ pcF = "tlsWait2" /\ cl.socketSync = 0
    /\ cl' = [cl EXCEPT !.Features = Nil]
    /\ pcF' = "xmlOut" /\ out' = StreamHeader(cl)
    /\ restarts' = restarts + 1
    /\ UNCHANGED <<handlers, x, hout, pend, gateVars, readerVars, writerVars,
                   pcRX, chainVars, closed, srvGone, wire, appVars, invoked, nIn,
                   resumeRaised, closeCalls, panicked>>
    /\ UNCHANGED extVars

\* ------------------------------------------------------ the transport reader
\* readTransport: if cl.socket == nil { cl.waitForSocket() }
ReadTransportCheck ==
    /\ Running /\ pcRT = "check"
    /\ pcRT' = IF cl.socket = NilSocket THEN "waitDone1" ELSE "load"
    /\ UNCHANGED <<cl, handlers, filterVars, gateVars, rsock, writerVars, pcRX,
                   chainVars, closed, srvGone, wire, appVars, histVars, panicked>>
    /\ UNCHANGED extVars

\* readTransport: cl.socket.Read(p) evaluates cl.socket; a nil interface
\* panics.
ReadTransportLoad ==
    /\ Running /\ pcRT = "load"
    /\ IF cl.socket = NilSocket
       THEN /\ panicked' = "readTransport: nil socket"
            /\ UNCHANGED <<pcRT, rsock>>
       ELSE /\ pcRT' = "read" /\ rsock' = cl.socket
            /\ UNCHANGED panicked
    /\ UNCHANGED <<cl, handlers, filterVars, gateVars, writerVars, pcRX,
                   chainVars, closed, srvGone, wire, appVars, histVars>>
    /\ UNCHANGED extVars

\* readTransport: the Read returns (bytes, or the read timeout) and the loop
\* starts over.
ReadTransportRead ==
    /\ Running /\ pcRT = "read" /\ ~srvGone
    /\ "socket" \notin closed /\ "inPipeR" \notin closed
    /\ pcRT' = "check" /\ rsock' = NilSocket
    /\ UNCHANGED <<cl, handlers, filterVars, gateVars, writerVars, pcRX,
                   chainVars, closed, srvGone, wire, appVars, histVars, panicked>>
    /\ UNCHANGED extVars

\* waitForSocket: the first cl.socketSync.Done(); a negative counter panics.
WaitForSocketDone1 ==
    /\ Running /\ pcRT = "waitDone1"
    /\ cl' = [cl EXCEPT !.socketSync = @ - 1]
    /\ IF cl.socketSync - 1 < 0
       THEN panicked' = "sync: negative WaitGroup counter" /\ UNCHANGED pcRT
       ELSE pcRT' = "waitPoll" /\ UNCHANGED panicked
    /\ UNCHANGED <<handlers, filterVars, gateVars, rsock, writerVars, pcRX,
                   chainVars, closed, srvGone, wire, appVars, histVars>>
    /\ UNCHANGED extVars

\* waitForSocket: for cl.socket == nil { time.Sleep(1e8) }
WaitForSocketPoll ==
    /\ Running /\ pcRT = "waitPoll" /\ cl.socket # NilSocket
    /\ pcRT' = "waitDone2"
    /\ UNCHANGED <<cl, handlers, filterVars, gateVars, rsock, writerVars, pcRX,
                   chainVars, closed, srvGone, wire, appVars, histVars, panicked>>
    /\ UNCHANGED extVars

\* waitForSocket: the second cl.socketSync.Done(), and the return to the Read.
WaitForSocketDone2 ==
    /\ Running /\ pcRT = "waitDone2"
    /\ cl' = [cl EXCEPT !.socketSync = @ - 1]
    /\ IF cl.socketSync - 1 < 0
       THEN panicked' = "sync: negative WaitGroup counter" /\ UNCHANGED pcRT
       ELSE pcRT' = "load" /\ UNCHANGED panicked
    /\ UNCHANGED <<handlers, filterVars, gateVars, rsock, writerVars, pcRX,
                   chainVars, closed, srvGone, wire, appVars, histVars>>
    /\ UNCHANGED extVars

\* ------------------------------------------------------- the outbound gate
\* writeStream, case status := <- control: the sender is bindDone, called by
\* the bind closure on the filter's task, which then returns false.
writeStreamControl(in, status) ==
    CASE status = PAUSE -> "nil"
      [] status = RESUME -> "cliIn"
      [] OTHER -> in

\* bindDone: the status it sends on the control channel.
bindDone == RESUME

WriteStreamControl ==
    /\ Running /\ pcW = "select" /\ pcF = "control"
    /\ input' = writeStreamControl(input, bindDone)
    /\ pcF' = "select"
    /\ UNCHANGED <<cl, handlers, x, out, hout, pend, pcW, wx, readerVars,
                   writerVars, pcRX, chainVars, closed, srvGone, wire, appVars,
                   histVars, panicked>>
    /\ UNCHANGED extVars

\* writeStream, case x := <- input: enabled only when input is cliIn (a
\* receive from a nil channel blocks forever); the stanza is the one the
\* application is blocked sending.
WriteStreamRecv ==
    /\ Running /\ pcW = "select" /\ input = "cliIn" /\ appSend # Nil
    /\ wx' = appSend /\ appSend' = Nil
    /\ pcW' = "srvOut"
    /\ UNCHANGED <<cl, handlers, filterVars, input, readerVars, writerVars, pcRX,
                   chainVars, closed, srvGone, wire, nApp, nReg, appIn, histVars,
                   panicked>>
    /\ UNCHANGED extVars

\* ------------------------------------------------- the XML writer and the pump
\* writeXml, for obj := range ch: the value comes from the filter's send
WriteXmlRecvFilter ==
    /\ Running /\ pcWX = "recv" /\ pcF = "xmlOut" /\ "xmlOut" \notin closed
    /\ vWX' = out /\ pcWX' = "marshal"
    /\ pcF' = "select" /\ out' = Nil
    /\ UNCHANGED <<cl, handlers, x, hout, pend, gateVars, readerVars, pcWT, vWT,
                   pcRX, chainVars, closed, srvGone, wire, appVars, histVars,
                   panicked>>
    /\ UNCHANGED extVars

\* writeXml, for obj := range ch: the value comes from writeStream's send
WriteXmlRecvGate ==
    /\ Running /\ pcWX = "recv" /\ pcW = "srvOut" /\ "xmlOut" \notin closed
    /\ vWX' = wx /\ pcWX' = "marshal"
    /\ pcW' = "select" /\ wx' = Nil
    /\ UNCHANGED <<cl, handlers, filterVars, input, readerVars, pcWT, vWT, pcRX,
                   chainVars, closed, srvGone, wire, appVars, histVars, panicked>>
    /\ UNCHANGED extVars

\* xml.Marshal(w, obj) writes into the pipe, writeTransport's r.Read takes it
WriteTransportRead ==
    /\ Running /\ pcWX = "marshal" /\ pcWT = "read"
    /\ vWT' = vWX /\ pcWT' = "write"
    /\ vWX' = Nil /\ pcWX' = "recv"
    /\ UNCHANGED <<cl, handlers, filterVars, gateVars, readerVars, pcRX,
                   chainVars, closed, srvGone, wire, appVars, histVars, panicked>>
    /\ UNCHANGED extVars

\* A pump that would write the newest bytes first, for comparison.
WriteTransportWriteFirst ==
    /\ Running /\ pcWT = "write" /\ cl.socket # NilSocket
    /\ wire' = <<vWT>> \o wire
    /\ pcWT' = "read" /\ vWT' = Nil
    /\ UNCHANGED <<cl, handlers, filterVars, gateVars, readerVars, pcWX, vWX,
                   pcRX, chainVars, closed, srvGone, appVars, histVars, panicked>>
    /\ UNCHANGED extVars

\* writeTransport: cl.socket.Write(p[:nr]); a nil interface panics.
WriteTransportWrite ==
    /\ Running /\ pcWT = "write"
    /\ IF cl.socket = NilSocket
       THEN /\ panicked' = "writeTransport: nil socket"
            /\ UNCHANGED <<wire, pcWT, vWT>>
       ELSE /\ "socket" \notin closed
            /\ wire' = Append(wire, vWT)
            /\ pcWT' = "read" /\ vWT' = Nil
            /\ UNCHANGED panicked
    /\ UNCHANGED <<cl, handlers, filterVars, gateVars, readerVars, pcWX, vWX,
                   pcRX, chainVars, closed, srvGone, appVars, histVars>>
    /\ UNCHANGED extVars

\* ------------------------------------------------------------ the filter chain
\* filterBottom, for data := range from: takes the filter's send on cliOut
FilterBottomRecv ==
    /\ Running /\ pcFB = "recv" /\ pcF = "cliOut"
    /\ fbData' = out /\ pcFB' = "send"
    /\ pcF' = "select" /\ out' = Nil
    /\ fwd' = Append(fwd, out)
    /\ UNCHANGED <<cl, handlers, x, hout, pend, gateVars, readerVars, writerVars,
                   pcRX, pcFT, ftData, closed, srvGone, wire, appVars, histVars,
                   panicked>>
    /\ UNCHANGED <<nc, topFilter, rosterVars, fx, pureVars>>

\* filterTop, case data, ok := <-topFilter: takes the send of the task that
\* writes the channel topFilter holds, filterBottom's to <- data or the
\* installed filter's out <- st
FilterTopRecv ==
    /\ Running /\ pcFT = "select"
    /\ IF topFilter = "bottom"
       THEN /\ pcFB = "send"
            /\ ftData' = fbData
            /\ fbData' = Nil /\ pcFB' = "recv"
            /\ UNCHANGED rf
       ELSE /\ rf.pc = "out"
            /\ ftData' = rf.st
            /\ rf' = [rf EXCEPT !.pc = "range", !.st = Nil]
            /\ UNCHANGED <<pcFB, fbData>>
    /\ pcFT' = "send"
    /\ UNCHANGED <<cl, handlers, filterVars, gateVars, readerVars, writerVars,
                   pcRX, closed, srvGone, wire, appVars, histVars, panicked>>
    /\ UNCHANGED <<nc, topFilter, fr, slices, got, applied, replied, fwd,
                   fx, pureVars>>

\* ------------------------------------------------------------ the application
\* The application receives filterTop's app <- data on client.In.
AppRecv ==
    /\ Running /\ pcFT = "send"
    /\ appIn' = Append(appIn, ftData)
    /\ ftData' = Nil /\ pcFT' = "select"
    /\ UNCHANGED <<cl, handlers, filterVars, gateVars, readerVars, writerVars,
                   pcRX, pcFB, fbData, closed, srvGone, wire, appSend, nApp, nReg,
                   histVars, panicked>>
    /\ UNCHANGED extVars

\* The n-th stanza the application submits.
AppStanza(n) == [Blank EXCEPT !.typ = "Message", !.local = "message", !.app = n]

\* The application starts client.Out <- stanza.
AppSend ==
    /\ Running /\ appSend = Nil /\ nApp < MaxApp /\ "Out" \notin closed
    /\ appSend' = AppStanza(nApp + 1)
    /\ nApp' = nApp + 1
    /\ UNCHANGED <<cl, handlers, filterVars, gateVars, readerVars, writerVars,
                   pcRX, chainVars, closed, srvGone, wire, nReg, appIn, histVars,
                   panicked>>
    /\ UNCHANGED extVars

\* HandleStanza(id, f) called by the application, f returning ret.
HandleStanza(id, ret) ==
    /\ Running /\ nReg < MaxReg /\ Len(cl.handlers) < HandlersCap
    /\ cl' = [cl EXCEPT !.handlers =
                 Append(@, [id |-> id, f |-> AppF(nReg + 1, ret)])]
    /\ nReg' = nReg + 1
    /\ UNCHANGED <<handlers, filterVars, gateVars, readerVars, writerVars, pcRX,
                   chainVars, closed, srvGone, wire, appSend, nApp, appIn,
                   histVars, panicked>>
    /\ UNCHANGED extVars

\* HandleStanza(id, f) called by the application, f being a callback that
\* receives from client.In and then returns false.
HandleStanzaWait(id) ==
    /\ Running /\ nReg < MaxReg /\ Len(cl.handlers) < HandlersCap
    /\ cl' = [cl EXCEPT !.handlers =
                 Append(@, [id |-> id, f |-> WaitF(nReg + 1)])]
    /\ nReg' = nReg + 1
    /\ UNCHANGED <<handlers, filterVars, gateVars, readerVars, writerVars, pcRX,
                   chainVars, closed, srvGone, wire, appSend, nApp, appIn,
                   histVars, panicked>>
    /\ UNCHANGED extVars

\* A receive with no sender, for comparison.
recvAlways(pc) == TRUE

\* A receive from client.In completes when filterTop is at app <- data.
recvReady(pc) == pc = "send"

\* The callback's <- client.In, on the filter's task, takes filterTop's
\* app <- data; the callback returns false.
HandlerRecvIn ==
    /\ Running /\ pcF = "handlerIn" /\ recvReady(pcFT)
    /\ ftData' = Nil /\ pcFT' = "select"
    /\ pcF' = "select"
    /\ UNCHANGED <<cl, handlers, x, out, hout, pend, gateVars, readerVars,
                   writerVars, pcRX, pcFB, fbData, closed, srvGone, wire,
                   appVars, histVars, panicked>>
    /\ UNCHANGED extVars

\* ----------------------------------------------------- closing and failing
\* The application closes client.Out.
AppCloseOut ==
    /\ Running /\ "Out" \notin closed /\ appSend = Nil
    /\ closed' = closed \cup {"Out"}
    /\ UNCHANGED <<cl, handlers, filterVars, gateVars, readerVars, writerVars,
                   pcRX, chainVars, srvGone, wire, appVars, histVars, panicked>>
    /\ UNCHANGED extVars

\* writeStream, case x := <- input on the closed client.Out: x is nil, the
\* task logs "Refusing to send nil stanza" and continues its loop.
WriteStreamRecvNil ==
    /\ Running /\ pcW = "select" /\ input = "cliIn" /\ "Out" \in closed
    /\ UNCHANGED vars

\* readStream, case x := <- srvIn on the closed srvIn: x is nil, the break
\* leaves the select and the loop goes on.
ReadStreamRecvNil ==
    /\ Running /\ pcF = "select" /\ "srvIn" \in closed
    /\ UNCHANGED vars

\* The server closes the connection.
ServerDisconnect ==
    /\ Running /\ ~srvGone
    /\ srvGone' = TRUE
    /\ UNCHANGED <<cl, handlers, filterVars, gateVars, readerVars, writerVars,
                   pcRX, chainVars, closed, wire, appVars, histVars, panicked>>
    /\ UNCHANGED extVars

\* readTransport: the Read fails (or the write into the pipe does); the
\* loop breaks and the deferred tryClose(cl.socket, w) runs.
ReadTransportExit ==
    /\ Running /\ pcRT = "read"
    /\ srvGone \/ "socket" \in closed \/ "inPipeR" \in closed
    /\ pcRT' = "done" /\ rsock' = NilSocket
    /\ closed' = tryClose(closed, {"socket", "inPipeW"})
    /\ UNCHANGED <<cl, handlers, filterVars, gateVars, writerVars, pcRX,
                   chainVars, srvGone, wire, appVars, histVars, panicked>>
    /\ UNCHANGED extVars

\* readXml: p.Token() returns nil at the end of the pipe; the loop breaks and
\* the deferred tryClose(r, ch) runs.
ReadXmlExit ==
    /\ Running /\ pcRX = "run" /\ "inPipeW" \in closed
    /\ pcRX' = "done"
    /\ closed' = tryClose(closed, {"inPipeR", "srvIn"})
    /\ UNCHANGED <<cl, handlers, filterVars, gateVars, readerVars, writerVars,
                   chainVars, srvGone, wire, appVars, histVars, panicked>>
    /\ UNCHANGED extVars

\* writeTransport: the pipe is at its end or the socket write fails; the loop
\* breaks and the deferred tryClose(r, cl.socket) runs.
WriteTransportExit ==
    /\ Running
    /\ \/ pcWT = "write" /\ cl.socket # NilSocket /\ "socket" \in closed
       \/ pcWT = "read" /\ "outPipeW" \in closed
    /\ pcWT' = "done" /\ vWT' = Nil
    /\ closed' = tryClose(closed, {"outPipeR", "socket"})
    /\ UNCHANGED <<cl, handlers, filterVars, gateVars, readerVars, pcWX, vWX,
                   pcRX, chainVars, srvGone, wire, appVars, histVars, panicked>>
    /\ UNCHANGED extVars

\* writeXml: xml.Marshal fails on the closed pipe, or the range over the
\* closed channel ends; the deferred tryClose(w, ch) runs.
WriteXmlExit ==
    /\ Running
    /\ \/ pcWX = "marshal" /\ "outPipeR" \in closed
       \/ pcWX = "recv" /\ "xmlOut" \in closed
    /\ pcWX' = "done" /\ vWX' = Nil
    /\ closed' = tryClose(closed, {"outPipeW", "xmlOut"})
    /\ UNCHANGED <<cl, handlers, filterVars, gateVars, readerVars, pcWT, vWT,
                   pcRX, chainVars, srvGone, wire, appVars, histVars, panicked>>
    /\ UNCHANGED extVars

\* A send on the closed xmlOut, by the filter or by writeStream, panics.
SendOnClosedXmlOut ==
    /\ Running /\ "xmlOut" \in closed
    /\ pcF = "xmlOut" \/ pcW = "srvOut"
    /\ panicked' = "send on closed channel"
    /\ UNCHANGED <<cl, handlers, filterVars, gateVars, readerVars, writerVars,
                   pcRX, chainVars, closed, srvGone, wire, appVars, histVars>>
    /\ UNCHANGED extVars

\* ----------------------------------------------------------------- the server
MechLists == {<<>>, <<"DIGEST-MD5">>, <<"PLAIN">>}

SrvFeatures ==
    {ElFeatures(st, m, b, FALSE) : st \in BOOLEAN, m \in MechLists, b \in BOOLEAN}

SrvTls == {El(NsTLS, "proceed"), El(NsTLS, "failure")}

SrvSasl ==
    {ElChallenge(TRUE, <<"auth">>, ""), ElChallenge(TRUE, <<>>, ""),
     ElChallenge(TRUE, <<"auth">>, SaslNext), ElChallenge(FALSE, <<"auth">>, ""),
     El(NsSASL, "failure"), El(NsSASL, "success")}

SrvStream == {El(NsStream, "stream"), El(NsStream, "error"), El("stream", "error")}

SrvBind ==
    {ElFeatures(FALSE, <<>>, TRUE, FALSE), ElBindIq(1, "result", JidBound),
     ElBindIq(2, "result", JidBound), ElBindIq(1, "error", JidBound),
     ElBindIq(1, "result", JidBad), ElBindIq(1, "result", <<>>)}

SrvStanzas ==
    {ElStanza("message", id, "chat") : id \in {NoId} \cup Ids}
    \cup {ElStanza("iq", 1, "result"), ElStanza("presence", 2, "")}

SrvOther == {El("jabber:x:other", "x"), El(NsTLS, "starttls")}

SrvAll == SrvFeatures \cup SrvTls \cup SrvSasl \cup SrvStream \cup SrvBind
          \cup SrvStanzas \cup SrvOther

\* ------------------------------------------------------------------ NewClient
\* The lists net.LookupSRV can return.
RECURSIVE SeqsUpTo(_, _)
SeqsUpTo(S, n) ==
    IF n = 0 THEN {<<>>}
    ELSE LET shorter == SeqsUpTo(S, n - 1)
         IN  shorter \cup {Append(q, e) : q \in {r \in shorter : Len(r) = n - 1},
                                          e \in S}

SrvLists == SeqsUpTo(Targets, MaxSrv)

\* _, srvs, err := net.LookupSRV(...), and the return when it fails
NewClientLookup(ok, l) ==
    /\ nc.pc = "lookup"
    /\ nc' = IF ok THEN [nc EXCEPT !.pc = "loop", !.srvs = l, !.i = 1]
             ELSE [nc EXCEPT !.pc = "returned", !.err = "LookupSrv",
                             !.ret = [client |-> "nil", err |-> "LookupSrv",
                                      conn |-> NoConn]]
    /\ UNCHANGED <<cl, handlers, filterVars, gateVars, readerVars, writerVars,
                   pcRX, chainVars, closed, srvGone, wire, appVars, histVars,
                   panicked, topFilter, rosterVars, fwd,
                   fx, pureVars>>

\* One pass of the loop over srvs.  addr, err := declares the loop body's own
\* err; tcp, err = net.DialTCP(...) assigns NewClient's tcp and that err; both
\* failures continue, and nothing leaves the loop after a dial that succeeds.
NewClientDial ==
    /\ nc.pc = "loop" /\ nc.i <= Len(nc.srvs)
    /\ LET t == nc.srvs[nc.i]
       IN  nc' = CASE t = "noaddr" ->
                        [nc EXCEPT !.errLoop = "ResolveTCPAddr", !.i = @ + 1]
                   [] t = "refused" ->
                        [nc EXCEPT !.tcp = NoConn, !.errLoop = "DialTCP",
                                   !.dials = Append(@, [target |-> nc.i,
                                                        ok |-> FALSE]),
                                   !.i = @ + 1]
                   [] OTHER ->
                        [nc EXCEPT !.tcp = nc.i, !.errLoop = "",
                                   !.dials = Append(@, [target |-> nc.i,
                                                        ok |-> TRUE]),
                                   !.i = @ + 1]
    /\ UNCHANGED <<cl, handlers, filterVars, gateVars, readerVars, writerVars,
                   pcRX, chainVars, closed, srvGone, wire, appVars, histVars,
                   panicked, topFilter, rosterVars, fwd,
                   fx, pureVars>>

\* After the loop: if tcp == nil { return nil, err }, else the tasks are
\* started on tcp and the Client is returned.
NewClientReturn ==
    /\ nc.pc = "loop" /\ nc.i > Len(nc.srvs)
    /\ nc' = [nc EXCEPT
                !.pc = "returned",
                !.ret = IF nc.tcp = NoConn
                        THEN [client |-> "nil", err |-> nc.err, conn |-> NoConn]
                        ELSE [client |-> "client", err |-> "", conn |-> nc.tcp]]
    /\ UNCHANGED <<cl, handlers, filterVars, gateVars, readerVars, writerVars,
                   pcRX, chainVars, closed, srvGone, wire, appVars, histVars,
                   panicked, topFilter, rosterVars, fwd,
                   fx, pureVars>>

\* ------------------------------------------------------- the roster extension
\* A roster item: its jid and its subscription.
RosterJids == {"a", "b"}
Subscriptions == {"to", "both", "remove"}
Items == [jid : RosterJids, sub : Subscriptions]
Item(j, sb) == [jid |-> j, sub |-> sb]

\* An iq of type t whose payload is a jabber:iq:roster query with the items its.
ElRoster(id, t, its) ==
    [ElStanza("iq", id, t) EXCEPT !.nested = "roster", !.items = its]

\* maybeUpdateRoster's condition
IsRosterPush(st) == st.local = "iq" /\ st.type = "set" /\ st.nested = "roster"

\* iq := &Iq{To: st.GetFrom(), Id: st.GetId(), Type: "result"}
RosterReply(st) ==
    [Blank EXCEPT !.typ = "Iq", !.local = "iq", !.id = st.id, !.type = "result"]

\* feedRoster's update of its map: remove deletes the key, any other
\* subscription stores the item under its jid.
rosterDelete(r, it) == [j \in DOMAIN r \ {it.jid} |-> r[j]]
rosterStore(r, it) == [j \in DOMAIN r \cup {it.jid} |->
                          IF j = it.jid THEN it ELSE r[j]]
\* A cache that would store the removed item, for comparison.
rosterApplyKeepRemoved(r, it) == rosterStore(r, it)

rosterApply(r, it) ==
    IF it.sub = "remove" THEN rosterDelete(r, it) ELSE rosterStore(r, it)

\* The values of the map, as the range over it collects them (in no order).
RosterValues(r) == {r[j] : j \in DOMAIN r}

\* A feeder that would refill the slice it handed out, for comparison.
reuseSnapshot(sl, snap, r) ==
    IF snap \notin DOMAIN sl
    THEN [slices |-> Append(sl, RosterValues(r)), snapshot |-> Len(sl) + 1]
    ELSE [slices |-> [sl EXCEPT ![snap] = RosterValues(r)], snapshot |-> snap]

\* snapshot = make([]RosterItem, 0, len(roster)) and the appends: a new
\* slice, the slices made before are left as they are.
makeSnapshot(sl, snap, r) ==
    [slices |-> Append(sl, RosterValues(r)), snapshot |-> Len(sl) + 1]

\* startRosterFilter: client.AddFilter(out) sends out on cl.filterOut;
\* filterTop's case newFilterOut := <- filterOut takes it and goes on to
\* filterIn <- topFilter.  topFilter stays what it was.
FilterTopInstall ==
    /\ Running /\ rf.pc = "start" /\ pcFT = "select"
    /\ pcFT' = "filterIn"
    /\ rf' = [rf EXCEPT !.pc = "filterIn"]
    /\ UNCHANGED topFilter
    /\ UNCHANGED <<cl, handlers, filterVars, gateVars, readerVars, writerVars,
                   pcRX, pcFB, fbData, ftData, closed, srvGone, wire, appVars,
                   histVars, panicked, nc, fr, slices, got, applied, replied,
                   fwd,
                   fx, pureVars>>

\* A filterTop that would go on to read the new filter's output
\* (topFilter = newFilterOut after the send), for comparison.
AddFilterReturnSwitch ==
    /\ Running /\ rf.pc = "filterIn" /\ pcFT = "filterIn"
    /\ pcFT' = "select"
    /\ rf' = [rf EXCEPT !.pc = "range", !.in = topFilter]
    /\ topFilter' = "filter"
    /\ fr' = [fr EXCEPT !.pc = "start"]
    /\ UNCHANGED <<cl, handlers, filterVars, gateVars, readerVars, writerVars,
                   pcRX, pcFB, fbData, ftData, closed, srvGone, wire, appVars,
                   histVars, panicked, nc, slices, got, applied, replied, fwd,
                   fx, pureVars>>

\* AddFilter returns what filterTop sends on filterIn, the channel topFilter;
\* startRosterFilter starts the filter's task on it and goes on to start the
\* feeder.  filterTop returns to its select with topFilter as it was.
AddFilterReturn ==
    /\ Running /\ rf.pc = "filterIn" /\ pcFT = "filterIn"
    /\ pcFT' = "select"
    /\ rf' = [rf EXCEPT !.pc = "range", !.in = topFilter]
    /\ fr' = [fr EXCEPT !.pc = "start"]
    /\ UNCHANGED <<cl, handlers, filterVars, gateVars, readerVars, writerVars,
                   pcRX, pcFB, fbData, ftData, closed, srvGone, wire, appVars,
                   histVars, panicked, nc, topFilter, slices, got, applied,
                   replied, fwd,
                   fx, pureVars>>

\* startRosterFilter: rosterClients[client.Uid] = ..., go feedRoster; and
\* feedRoster up to its select: the empty map, snapshot := []RosterItem{}.
StartFeedRoster ==
    /\ Running /\ fr.pc = "start"
    /\ LET m == makeSnapshot(slices, fr.snapshot, EmptyRoster)
       IN  /\ fr' = [pc |-> "select", roster |-> EmptyRoster,
                     snapshot |-> m.snapshot]
           /\ slices' = m.slices
    /\ UNCHANGED <<cl, handlers, filterVars, gateVars, readerVars, writerVars,
                   pcRX, chainVars, closed, srvGone, wire, appVars, histVars,
                   panicked, nc, topFilter, rf, got, applied, replied, fwd,
                   fx, pureVars>>

\* The filter's task, for st := range(in): takes the send of the task that
\* writes in, then maybeUpdateRoster reads rosterClients[client.Uid] (the
\* zero value, a nil channel, until startRosterFilter has stored it) and
\* tests the stanza.
RosterFilterRecv ==
    /\ Running /\ rf.pc = "range" /\ rf.in = "bottom" /\ pcFB = "send"
    /\ rf' = [rf EXCEPT
                !.st = fbData,
                !.rosterUpdate = IF fr.pc = "select" THEN "rosterUpdate"
                                 ELSE "nil",
                !.items = IF IsRosterPush(fbData) THEN fbData.items ELSE <<>>,
                !.pc = IF ~IsRosterPush(fbData) THEN "out"
                       ELSE IF fbData.items = <<>> THEN "reply" ELSE "update"]
    /\ fbData' = Nil /\ pcFB' = "recv"
    /\ UNCHANGED <<cl, handlers, filterVars, gateVars, readerVars, writerVars,
                   pcRX, pcFT, ftData, closed, srvGone, wire, appVars, histVars,
                   panicked, nc, topFilter, fr, slices, got, applied, replied,
                   fwd,
                   fx, pureVars>>

\* feedRoster, case newIt := <-rosterUpdate, and the rebuilding of snapshot
\* that ends the pass of its loop.
FeedRosterRecv(it) ==
    /\ fr.pc = "select"
    /\ LET r == rosterApply(fr.roster, it)
           m == makeSnapshot(slices, fr.snapshot, r)
       IN  /\ fr' = [fr EXCEPT !.roster = r, !.snapshot = m.snapshot]
           /\ slices' = m.slices
    /\ applied' = Append(applied, it)

\* maybeUpdateRoster: rosterUpdate <- item, taken by feedRoster.  A send on
\* the nil channel never completes.
RosterUpdate ==
    /\ Running /\ rf.pc = "update" /\ rf.rosterUpdate = "rosterUpdate"
    /\ FeedRosterRecv(Head(rf.items))
    /\ rf' = [rf EXCEPT !.items = Tail(@),
                        !.pc = IF Tail(rf.items) = <<>> THEN "reply"
                               ELSE "update"]
    /\ UNCHANGED <<cl, handlers, filterVars, gateVars, readerVars, writerVars,
                   pcRX, chainVars, closed, srvGone, wire, appVars, histVars,
                   panicked, nc, topFilter, got, replied, fwd,
                   fx, pureVars>>

\* fetchRoster's closure, running for the roster result: rosterUpdate <- item
\* for an item of the result, taken by feedRoster.
FetchRosterUpdate(it) ==
    /\ Running /\ Len(applied) < MaxUpd
    /\ FeedRosterRecv(it)
    /\ UNCHANGED <<cl, handlers, filterVars, gateVars, readerVars, writerVars,
                   pcRX, chainVars, closed, srvGone, wire, appVars, histVars,
                   panicked, nc, topFilter, rf, got, replied, fwd,
                   fx, pureVars>>

\* maybeUpdateRoster: client.Out <- iq, taken by writeStream's
\* case x := <- input.
WriteStreamRecvReply ==
    /\ Running /\ pcW = "select" /\ input = "cliIn" /\ rf.pc = "reply"
    /\ wx' = RosterReply(rf.st) /\ pcW' = "srvOut"
    /\ rf' = [rf EXCEPT !.pc = "out"]
    /\ replied' = Append(replied, rf.st.id)
    /\ UNCHANGED <<cl, handlers, filterVars, input, readerVars, writerVars, pcRX,
                   chainVars, closed, srvGone, wire, appVars, histVars,
                   panicked, nc, topFilter, fr, slices, got, applied, fwd,
                   fx, pureVars>>

\* Roster(client): return <- rosterChan, which takes feedRoster's
\* case rosterCh <- snapshot; feedRoster then rebuilds snapshot.  An entry
\* of got is the slice returned, with the number of items applied and of
\* stanzas the application had received when it was returned.
AppRoster ==
    /\ Running /\ fr.pc = "select" /\ Len(got) < MaxCalls
    /\ got' = Append(got, [slice |-> fr.snapshot, n |-> Len(applied),
                           seen |-> Len(appIn)])
    /\ LET m == makeSnapshot(slices, fr.snapshot, fr.roster)
       IN  /\ fr' = [fr EXCEPT !.snapshot = m.snapshot]
           /\ slices' = m.slices
    /\ UNCHANGED <<cl, handlers, filterVars, gateVars, readerVars, writerVars,
                   pcRX, chainVars, closed, srvGone, wire, appVars, histVars,
                   panicked, nc, topFilter, rf, applied, replied, fwd,
                   fx, pureVars>>

\* ------------------------------------------------------------- fetchRoster
\* fetchRoster: the request is built with the next id, then
\* client.HandleStanza(iq.Id, f).
FetchRosterRegister ==
    /\ Running /\ fx.pc = "start" /\ Len(cl.handlers) < HandlersCap
    /\ cl' = [cl EXCEPT !.Id = @ + 1,
                        !.handlers = Append(@, [id |-> cl.Id,
                                                f |-> RosterF(cl.Id)])]
    /\ fx' = [fx EXCEPT !.pc = "out", !.id = cl.Id]
    /\ UNCHANGED <<handlers, filterVars, gateVars, readerVars, writerVars, pcRX,
                   chainVars, closed, srvGone, wire, appVars, histVars,
                   panicked, nc, topFilter, rosterVars, fwd, pureVars>>

\* fetchRoster: client.Out <- iq, taken by writeStream's case x := <- input.
FetchRosterSend ==
    /\ Running /\ fx.pc = "out" /\ pcW = "select" /\ input = "cliIn"
    /\ wx' = FetchRequest(fx.id) /\ pcW' = "srvOut"
    /\ fx' = [fx EXCEPT !.pc = "wait"]
    /\ UNCHANGED <<cl, handlers, filterVars, input, readerVars, writerVars, pcRX,
                   chainVars, closed, srvGone, wire, appVars, histVars,
                   panicked, nc, topFilter, rosterVars, fwd, pureVars>>

\* The closure, on the filter's task: rosterUpdate <- item for the next item
\* of the stanza, taken by feedRoster.
FetchRosterItem ==
    /\ Running /\ pcF = "fetchItems"
    /\ FeedRosterRecv(x.items[fx.k + 1])
    /\ fx' = [fx EXCEPT !.k = @ + 1]
    /\ pcF' = IF fx.k + 1 = Len(x.items) THEN "fetchCh" ELSE "fetchItems"
    /\ UNCHANGED <<cl, handlers, x, out, hout, pend, gateVars, readerVars,
                   writerVars, pcRX, chainVars, closed, srvGone, wire, appVars,
                   histVars, panicked, nc, topFilter, rf, got, replied, fwd,
                   pureVars>>

\* The closure's ch <- ..., taken by fetchRoster's return <- ch; the closure
\* returns false and the filter goes back to its select.
FetchRosterReturn ==
    /\ Running /\ pcF = "fetchCh" /\ fx.pc = "wait"
    /\ fx' = [fx EXCEPT !.pc = "returned",
                        !.ret = fetchRosterClosure(FetchRequest(fx.id), x).err,
                        !.reply = x]
    /\ pcF' = "select"
    /\ UNCHANGED <<cl, handlers, x, out, hout, pend, gateVars, readerVars,
                   writerVars, pcRX, chainVars, closed, srvGone, wire, appVars,
                   histVars, panicked, nc, topFilter, rosterVars, fwd, pureVars>>

\* ------------------------------------------------------------ pure functions
\* jid.Set(jidVal), once, on the receiver jid.
JIDSetCall ==
    /\ jidOk = "none"
    /\ LET r == JIDSet(jid, jidVal)
       IN  /\ jid' = r.jid
           /\ jidOk' = IF r.ok THEN "true" ELSE "false"
    /\ UNCHANGED <<cl, handlers, filterVars, gateVars, readerVars, writerVars,
                   pcRX, chainVars, closed, srvGone, wire, appVars, histVars,
                   panicked, nc, topFilter, rosterVars, fwd, fx, jidVal,
                   fnArg, fnRes>>

\* xml.Escape on the attribute values used here.
Escape(value) == IF value = "a<b" THEN "a&lt;b" ELSE value

\* A writeField that would write empty values too, for comparison.
writeFieldAlways(buf, field, value) ==
    buf \o <<" ", field, "=\"", Escape(value), "\"">>

\* writeField: the pieces written to the buffer.
writeField(buf, field, value) ==
    IF value # "" THEN buf \o <<" ", field, "=\"", Escape(value), "\"">>
    ELSE buf

\* stream.MarshalXML
streamMarshalXML(s) ==
    LET b0 == <<"<stream:stream">>
        b1 == writeField(b0, "xmlns", NsClient)
        b2 == writeField(b1, "xmlns:stream", NsStream)
        b3 == writeField(b2, "to", s.To)
        b4 == writeField(b3, "from", s.From)
        b5 == writeField(b4, "id", s.Id)
        b6 == writeField(b5, "xml:lang", s.Lang)
        b7 == writeField(b6, "version", s.Version)
    IN  Append(b7, ">")

\* s.MarshalXML() called on the stream header fnArg.s.
StreamMarshalCall ==
    /\ fnArg.fn = "MarshalXML" /\ ~fnRes.done
    /\ fnRes' = [done |-> TRUE, out |-> streamMarshalXML(fnArg.s)]
    /\ UNCHANGED <<cl, handlers, filterVars, gateVars, readerVars, writerVars,
                   pcRX, chainVars, closed, srvGone, wire, appVars, histVars,
                   panicked, nc, topFilter, rosterVars, fwd, fx, jid, jidVal,
                   jidOk, fnArg>>

\* The value of the attribute a in the documents used here.
AttrValue(a) ==
    CASE a = "to" -> "alice" [] a = "from" -> "bob" [] a = "id" -> "1"
      [] a = "type" -> "A" [] a = "lang" -> "en"

\* xml.Unmarshal of a field tagged "attr": the value of the attribute of
\* that name, the zero value when the element has none.
attrField(doc, a) == IF a \in doc.attrs THEN AttrValue(a) ELSE ""

\* A switch that would take any name for a message, for comparison.
newStanzaAny(local) ==
    CASE local = "iq" -> "Iq" [] local = "presence" -> "Presence"
      [] OTHER -> "Message"

\* ParseStanza: switch se.Name.Local
newStanza(local) ==
    CASE local = "iq" -> "Iq" [] local = "message" -> "Message"
      [] local = "presence" -> "Presence" [] OTHER -> "none"

NoStanza == [typ |-> "nil"]

\* GetName of the three variants.
GetName(st) ==
    CASE st.typ = "Iq" -> "iq" [] st.typ = "Message" -> "message"
      [] st.typ = "Presence" -> "presence"

\* ParseStanza(str), str being the document doc: its first token, the root's
\* name, attributes and <error> child, and whether the document is
\* complete.
ParseStanza(doc) ==
    IF doc.first = "syntax" THEN [stan |-> NoStanza, err |-> "token"]
    ELSE IF doc.first # "start"
    THEN [stan |-> NoStanza, err |-> "Not a start element"]
    ELSE IF newStanza(doc.local) = "none"
    THEN [stan |-> NoStanza, err |-> "Not iq, message, or presence"]
    ELSE IF ~doc.complete THEN [stan |-> NoStanza, err |-> "unmarshal"]
    ELSE [stan |-> [typ |-> newStanza(doc.local),
                    To |-> attrField(doc, "to"),
                    From |-> attrField(doc, "from"),
                    Id |-> attrField(doc, "id"),
                    Type |-> attrField(doc, "type"),
                    Lang |-> attrField(doc, "lang"),
                    Error |-> doc.error],
          err |-> ""]

\* ParseStanza called on the document fnArg.doc.
ParseStanzaCall ==
    /\ fnArg.fn = "ParseStanza" /\ ~fnRes.done
    /\ fnRes' = [done |-> TRUE, out |-> ParseStanza(fnArg.doc)]
    /\ UNCHANGED <<cl, handlers, filterVars, gateVars, readerVars, writerVars,
                   pcRX, chainVars, closed, srvGone, wire, appVars, histVars,
                   panicked, nc, topFilter, rosterVars, fwd, fx, jid, jidVal,
                   jidOk, fnArg>>

\* ------------------------------------------------------------ parseExtended
NsRoster == "jabber:iq:roster"
NsBind == "urn:ietf:params:xml:ns:xmpp-bind"

\* The child elements of a stanza: a roster query with items, a bind
\* element, an element of a namespace no extension registered, an <error>.
ChildQuery(its) == [space |-> NsRoster, local |-> "query", items |-> its]
ChildBind == [space |-> NsBind, local |-> "bind", items |-> <<>>]
ChildOther == [space |-> "jabber:x:other", local |-> "x", items |-> <<>>]
ChildError == [space |-> NsClient, local |-> "error", items |-> <<>>]
NoChild == [space |-> "", local |-> "", items |-> <<>>]
NoNested == [type |-> "nil"]

\* st.generic(): the stanza's field Any, which xml.Unmarshal fills with
\* every child that matches no other field, the last one staying.
generic(st) ==
    LET ks == {k \in 1..Len(st.children) : st.children[k].local # "error"}
    IN  IF ks = {} THEN NoChild
        ELSE st.children[CHOOSE k \in ks : \A m \in ks : m <= k]

\* extStanza[ns]
extStanza(ns) ==
    CASE ns = NsRoster -> "newRosterQuery" [] ns = NsBind -> "newBind"
      [] OTHER -> "nil"

\* con(&name): &RosterQuery{} or &bindIq{}
construct(con) ==
    IF con = "newRosterQuery" THEN [type |-> "RosterQuery", Item |-> <<>>]
    ELSE [type |-> "bindIq"]

\* The start elements of the stanza's innerxml in document order: every
\* child, followed by the <item> elements it holds, which are in its
\* namespace.
RECURSIVE startElements(_)
startElements(children) ==
    IF children = <<>> THEN <<>>
    ELSE LET c == Head(children)
         IN  <<c>> \o [k \in 1..Len(c.items) |->
                          [space |-> c.space, local |-> "item", items |-> <<>>]]
                  \o startElements(Tail(children))

\* p.Unmarshal(nested, start): the element must have the name of nested's
\* XMLName tag; a RosterQuery then takes the element's items.
unmarshalNested(nested, start) ==
    IF nested.type = "RosterQuery"
    THEN IF start.space = NsRoster /\ start.local = "query"
         THEN [err |-> "", v |-> [nested EXCEPT !.Item = start.items]]
         ELSE [err |-> "expected element type <query>", v |-> nested]
    ELSE IF start.space = NsBind /\ start.local = "bind"
         THEN [err |-> "", v |-> nested]
         ELSE [err |-> "expected element type <bind>", v |-> nested]

\* A search that would look for the element nested is made for, for
\* comparison.
firstOfConstructor(starts, space, con) ==
    CHOOSE k \in 1..Len(starts) :
        /\ extStanza(starts[k].space) = con /\ starts[k].local \in {"query", "bind"}
        /\ \A m \in 1..(k - 1) :
              ~(extStanza(starts[m].space) = con
                /\ starts[m].local \in {"query", "bind"})

\* parseExtended's loop: the first start element whose namespace is that of
\* st.generic().
firstInSpace(starts, space, con) ==
    CHOOSE k \in 1..Len(starts) :
        /\ starts[k].space = space
        /\ \A m \in 1..(k - 1) : starts[m].space # space

\* parseExtended(st, con); a stanza without Any makes st.generic() nil.
parseExtended(st, con) ==
    IF generic(st) = NoChild THEN [st |-> st, err |-> "nil dereference"]
    ELSE LET name == generic(st)
             starts == startElements(st.children)
             start == starts[firstInSpace(starts, name.space, con)]
             u == unmarshalNested(construct(con), start)
         IN  IF u.err # "" THEN [st |-> st, err |-> u.err]
             ELSE [st |-> [st EXCEPT !.Nested = u.v], err |-> ""]

\* parseExtended(st, con) called on the stanza fnArg.st.
ParseExtendedCall ==
    /\ fnArg.fn = "parseExtended" /\ ~fnRes.done
    /\ fnRes' = [done |-> TRUE, out |-> parseExtended(fnArg.st, fnArg.con)]
    /\ UNCHANGED <<cl, handlers, filterVars, gateVars, readerVars, writerVars,
                   pcRX, chainVars, closed, srvGone, wire, appVars, histVars,
                   panicked, nc, topFilter, rosterVars, fwd, fx, jid, jidVal,
                   jidOk, fnArg>>

\* ---------------------------------------------------------------- md5 digest
\* crypto/md5 as saslDigestResponse uses it.  A 32-bit word is a pair
\* <<high half, low half>> of 16-bit numbers; texts are sequences of bytes.
Half == 2 ^ 16

RECURSIVE And16(_, _)
And16(a, b) ==
    IF a = 0 \/ b = 0 THEN 0
    ELSE ((a % 2) * (b % 2)) + (2 * And16(a \div 2, b \div 2))

wAnd(v, w) == << And16(v[1], w[1]), And16(v[2], w[2]) >>
wOr(v, w)  == << (v[1] + w[1]) - And16(v[1], w[1]),
                 (v[2] + w[2]) - And16(v[2], w[2]) >>
wXor(v, w) == << (v[1] + w[1]) - (2 * And16(v[1], w[1])),
                 (v[2] + w[2]) - (2 * And16(v[2], w[2])) >>
wNot(v)    == << Half - 1 - v[1], Half - 1 - v[2] >>
wAdd(v, w) ==
    LET lo == v[2] + w[2]
    IN  << (v[1] + w[1] + (lo \div Half)) % Half, lo % Half >>
wRotl(v, s) ==
    LET y == IF s >= 16 THEN << v[2], v[1] >> ELSE v
        r == s % 16
        p == 2 ^ r
        q == 2 ^ (16 - r)
    IN  IF r = 0 THEN y
        ELSE << ((y[1] * p) % Half) + (y[2] \div q),
               ((y[2] * p) % Half) + (y[1] \div q) >>

Md5K ==
    << <<55146, 42104>>, <<59591, 46934>>, <<9248, 28891>>, <<49597, 52974>>,
       <<62844, 4015>>, <<18311, 50730>>, <<43056, 17939>>, <<64838, 38145>>,
       <<27008, 39128>>, <<35652, 63407>>, <<65535, 23473>>, <<35164, 55230>>,
       <<27536, 4386>>, <<64920, 29075>>, <<42617, 17294>>, <<18868, 2081>>,
       <<63006, 9570>>, <<49216, 45888>>, <<9822, 23121>>, <<59830, 51114>>,
       <<54831, 4189>>, <<580, 5203>>, <<55457, 59009>>, <<59347, 64456>>,
       <<8673, 52710>>, <<49975, 2006>>, <<62677, 3463>>, <<17754, 5357>>,
       <<43491, 59653>>, <<64751, 41976>>, <<26479, 729>>, <<36138, 19594>>,
       <<65530, 14658>>, <<34673, 63105>>, <<28061, 24866>>, <<64997, 14348>>,
       <<42174, 59972>>, <<19422, 53161>>, <<63163, 19296>>, <<48831, 48240>>,
       <<10395, 32454>>, <<60065, 10234>>, <<54511, 12421>>, <<1160, 7429>>,
       <<55764, 53305>>, <<59099, 39397>>, <<8098, 31992>>, <<50348, 22117>>,
       <<62505, 8772>>, <<17194, 65431>>, <<43924, 9127>>, <<64659, 41017>>,
       <<25947, 22979>>, <<36620, 52370>>, <<65519, 62589>>, <<34180, 24017>>,
       <<28584, 32335>>, <<65068, 59104>>, <<41729, 17172>>, <<19976, 4513>>,
       <<63315, 32386>>, <<48442, 62005>>, <<10967, 53947>>, <<60294, 54161>> >>

Md5S ==
    << 7, 12, 17, 22, 7, 12, 17, 22, 7, 12, 17, 22, 7, 12, 17, 22,
       5, 9, 14, 20, 5, 9, 14, 20, 5, 9, 14, 20, 5, 9, 14, 20,
       4, 11, 16, 23, 4, 11, 16, 23, 4, 11, 16, 23, 4, 11, 16, 23,
       6, 10, 15, 21, 6, 10, 15, 21, 6, 10, 15, 21, 6, 10, 15, 21 >>

Md5Init == << <<26437, 8961>>, <<61389, 43913>>, <<39098, 56574>>, <<4146, 21622>> >>

\* The message with the padding: 0x80, zeroes up to 56 mod 64, and the length
\* in bits as eight little-endian bytes.
Md5Pad(text) ==
    LET n     == Len(text)
        zeros == (119 - (n % 64)) % 64
        bits  == 8 * n
    IN  text \o << 128 >> \o [i \in 1..zeros |-> 0]
             \o << bits % 256, (bits \div 256) % 256, bits \div Half, 0, 0, 0, 0, 0 >>

\* The sixteen little-endian words of block k (from 0) of the padded message.
Md5Words(p, k) ==
    [j \in 1..16 |->
        LET o == (64 * k) + (4 * (j - 1))
        IN  << p[o + 3] + (256 * p[o + 4]), p[o + 1] + (256 * p[o + 2]) >>]

\* One step of a block: r holds the step number and the four words, m the
\* block's words.
Md5Step(r, m) ==
    LET i == r.i
        a == r.st[1]
        b == r.st[2]
        c == r.st[3]
        d == r.st[4]
        f == CASE i < 16 -> wOr(wAnd(b, c), wAnd(wNot(b), d))
               [] i < 32 -> wOr(wAnd(d, b), wAnd(wNot(d), c))
               [] i < 48 -> wXor(b, wXor(c, d))
               [] OTHER  -> wXor(c, wOr(b, wNot(d)))
        g == CASE i < 16 -> i
               [] i < 32 -> ((5 * i) + 1) % 16
               [] i < 48 -> ((3 * i) + 5) % 16
               [] OTHER  -> (7 * i) % 16
        t == wAdd(wAdd(f, a), wAdd(Md5K[i + 1], m[g + 1]))
    IN  [i |-> i + 1, st |-> << d, wAdd(b, wRotl(t, Md5S[i + 1])), b, c >>]

\* The steps up to step number last.
RECURSIVE Md5Round(_, _, _)
Md5Round(r, m, last) ==
    IF r.i = last THEN r ELSE Md5Round(Md5Step(r, m), m, last)

\* The four rounds of sixteen steps over one block.
Md5Block(st, m) ==
    Md5Round(Md5Round(Md5Round(Md5Round([i |-> 0, st |-> st],
                                        m, 16), m, 32), m, 48), m, 64).st

\* The blocks of the padded message p in turn: q holds the number of the next
\* block and the four words so far.
RECURSIVE Md5Blocks(_, _)
Md5Blocks(p, q) ==
    IF 64 * q.k >= Len(p) THEN q.st
    ELSE LET r == Md5Block(q.st, Md5Words(p, q.k))
         IN  Md5Blocks(p, [k  |-> q.k + 1,
                           st |-> << wAdd(q.st[1], r[1]), wAdd(q.st[2], r[2]),
                                     wAdd(q.st[3], r[3]), wAdd(q.st[4], r[4]) >>])

\* The digest: the four words, each as four little-endian bytes.
Md5Sum(text) ==
    LET st == Md5Blocks(Md5Pad(text), [k |-> 0, st |-> Md5Init])
    IN  [j \in 1..16 |->
            LET w == st[((j - 1) \div 4) + 1]
                e == (j - 1) % 4
            IN  CASE e = 0 -> w[2] % 256
                  [] e = 1 -> w[2] \div 256
                  [] e = 2 -> w[1] % 256
                  [] OTHER -> w[1] \div 256]

\* fmt.Sprintf("%x", bytes): two lower-case hexadecimal digits for each byte.
HexDigit(n) == IF n < 10 THEN 48 + n ELSE 87 + n
HexOf(bytes) ==
    [j \in 1..(2 * Len(bytes)) |->
        LET v == bytes[(j + 1) \div 2]
        IN  IF j % 2 = 1 THEN HexDigit(v \div 16) ELSE HexDigit(v % 16)]

\* Texts as the bytes of their characters.
\* "chris"
TxtChris == << 99, 104, 114, 105, 115 >>
\* "juliet"
TxtJuliet == << 106, 117, 108, 105, 101, 116 >>
\* "elwood.innosoft.com"
TxtElwood ==
    << 101, 108, 119, 111, 111, 100, 46, 105, 110, 110, 111, 115, 111, 102, 116, 46,
       99, 111, 109 >>
\* "example.com"
TxtExample == << 101, 120, 97, 109, 112, 108, 101, 46, 99, 111, 109 >>
\* "secret"
TxtSecret == << 115, 101, 99, 114, 101, 116 >>
\* "pencil"
TxtPencil == << 112, 101, 110, 99, 105, 108 >>
\* "OA6MG9tEQGm2hh"
TxtNonce == << 79, 65, 54, 77, 71, 57, 116, 69, 81, 71, 109, 50, 104, 104 >>
\* "OA6MHXh6VqTrRk"
TxtCnonce == << 79, 65, 54, 77, 72, 88, 104, 54, 86, 113, 84, 114, 82, 107 >>
\* "0123456789abcdef"
TxtCnonceHex ==
    << 48, 49, 50, 51, 52, 53, 54, 55, 56, 57, 97, 98, 99, 100, 101, 102 >>
\* "AUTHENTICATE"
TxtAuthenticate == << 65, 85, 84, 72, 69, 78, 84, 73, 67, 65, 84, 69 >>
\* "imap/elwood.innosoft.com"
TxtImapUri ==
    << 105, 109, 97, 112, 47, 101, 108, 119, 111, 111, 100, 46, 105, 110, 110, 111,
       115, 111, 102, 116, 46, 99, 111, 109 >>
\* "xmpp/example.com"
TxtXmppUri ==
    << 120, 109, 112, 112, 47, 101, 120, 97, 109, 112, 108, 101, 46, 99, 111, 109 >>
\* "00000001"
TxtNonceCount == << 48, 48, 48, 48, 48, 48, 48, 49 >>
\* ":"
TxtColon == << 58 >>
\* ":auth:"
TxtAuthQop == << 58, 97, 117, 116, 104, 58 >>
\* "d388dad90d4bbd760a152321f2143af7"
TxtExpected ==
    << 100, 51, 56, 56, 100, 97, 100, 57, 48, 100, 52, 98, 98, 100, 55, 54,
       48, 97, 49, 53, 50, 51, 50, 49, 102, 50, 49, 52, 51, 97, 102, 55 >>

\* saslDigestResponse with A1 built from the hexadecimal form of the inner
\* digest instead of its sixteen raw bytes.
saslDigestResponseHexA1(username, realm, passwd, nonce, cnonceStr, authenticate, digestUri, nonceCountStr) ==
    LET h(text) == Md5Sum(text)
        hex(bytes) == HexOf(bytes)
        kd(secret, data) == h(secret \o TxtColon \o data)
        a1 == hex(h(username \o TxtColon \o realm \o TxtColon \o passwd))
                  \o TxtColon \o nonce \o TxtColon \o cnonceStr
        a2 == authenticate \o TxtColon \o digestUri
    IN  hex(kd(hex(h(a1)), nonce \o TxtColon \o nonceCountStr \o TxtColon
                               \o cnonceStr \o TxtAuthQop \o hex(h(a2))))

\* Computes the response string for digest authentication.
saslDigestResponse(username, realm, passwd, nonce, cnonceStr, authenticate, digestUri, nonceCountStr) ==
    LET h(text) == Md5Sum(text)
        hex(bytes) == HexOf(bytes)
        kd(secret, data) == h(secret \o TxtColon \o data)
        a1 == h(username \o TxtColon \o realm \o TxtColon \o passwd)
                  \o TxtColon \o nonce \o TxtColon \o cnonceStr
        a2 == authenticate \o TxtColon \o digestUri
    IN  hex(kd(hex(h(a1)), nonce \o TxtColon \o nonceCountStr \o TxtColon
                               \o cnonceStr \o TxtAuthQop \o hex(h(a2))))

\* The arguments of TestSaslDigest: the values of RFC 2831, section 4.
TestSaslDigestArgs ==
    [fn |-> "saslDigestResponse", username |-> TxtChris, realm |-> TxtElwood,
     passwd |-> TxtSecret, nonce |-> TxtNonce, cnonceStr |-> TxtCnonce,
     authenticate |-> TxtAuthenticate, digestUri |-> TxtImapUri,
     nonceCountStr |-> TxtNonceCount]

SaslDigestResponseCall ==
    /\ fnArg.fn = "saslDigestResponse" /\ ~fnRes.done
    /\ fnRes' = [done |-> TRUE,
                 out |-> saslDigestResponse(fnArg.username, fnArg.realm,
                             fnArg.passwd, fnArg.nonce, fnArg.cnonceStr,
                             fnArg.authenticate, fnArg.digestUri,
                             fnArg.nonceCountStr)]
    /\ UNCHANGED <<cl, handlers, filterVars, gateVars, readerVars, writerVars,
                   pcRX, chainVars, closed, srvGone, wire, appVars, histVars,
                   panicked, nc, topFilter, rosterVars, fwd, fx, jid, jidVal,
                   jidOk, fnArg>>

\* HandleStanza(id, f) called by the application in a loop, with the same
\* callback f each time, for as long as client.handlers takes it.
HandleStanzaLoop ==
    /\ Running /\ Len(cl.handlers) < HandlersCap
    /\ cl' = [cl EXCEPT !.handlers = Append(@, [id |-> NoId, f |-> AppF(0, FALSE)])]
    /\ UNCHANGED <<handlers, filterVars, gateVars, readerVars, writerVars, pcRX,
                   chainVars, closed, srvGone, wire, appVars, histVars, panicked>>
    /\ UNCHANGED extVars

\* case x := <- srvIn, for the features a server sends after authentication:
\* bind is offered, once.
ReadStreamRecvBindOffer ==
    /\ cl.Features = Nil
    /\ ReadStreamRecv(ElFeatures(FALSE, <<>>, TRUE, FALSE))

\* case x := <- srvIn, for a stanza that arrives after the application's
\* last call of HandleStanza has returned.
ReadStreamRecvLate(e) == nReg = MaxReg /\ ReadStreamRecv(e)

\* ------------------------------------------------------ the answering server
\* A server that keeps to the protocol: it sends the stanza e when e answers
\* a request it has read from the connection, or when e carries no id.
Answers(e) == e.id = NoId \/ \E k \in 1..Len(wire) : wire[k].id = e.id

\* case x := <- srvIn, for an element of the answering server.
ReadStreamRecvAnswer(e) == Answers(e) /\ ReadStreamRecv(e)

\* ------------------------------------------------ the session established
\* The client when the session is established: the server has offered bind,
\* the bind request is on the wire, the reply has bound the resource and
\* bindDone has resumed the gate.  nIn counts the values consumed from here.
SessionFeatures == readXml(ElFeatures(FALSE, <<>>, TRUE, FALSE))
SessionBindReply == readXml(ElBindIq(1, "result", JidBound))
SessionClient ==
    bindReply(handleFeatures(TasksClient, SessionFeatures).cl,
              SessionBindReply).cl
SessionInit ==
    /\ cl = SessionClient
    /\ handlers = takeHandler(putHandler(<<>>, [id |-> 1, f |-> BindF(1)]), 1)
    /\ pcF = "select" /\ x = SessionBindReply /\ out = Nil /\ hout = NoH
    /\ pend = Nil
    /\ invoked = <<[f |-> BindF(1), id |-> 1]>> /\ nIn = 0
    /\ pcW = "select" /\ input = writeStreamControl(writeStreamInput0, bindDone)
    /\ wx = Nil
    /\ pcRT = "check" /\ rsock = NilSocket
    /\ pcWX = "recv" /\ vWX = Nil
    /\ pcWT = "read" /\ vWT = Nil
    /\ pcRX = "run"
    /\ pcFB = "recv" /\ fbData = Nil /\ pcFT = "select" /\ ftData = Nil
    /\ closed = {} /\ srvGone = FALSE
    /\ wire = <<StreamHeader([Jid |-> [Domain |-> <<"h">>]]),
                handleFeatures(TasksClient, SessionFeatures).pend>>
    /\ appSend = Nil /\ nApp = 0 /\ nReg = 0 /\ appIn = <<>>
    /\ resumeRaised = TRUE /\ closeCalls = 0 /\ restarts = 0
    /\ panicked = ""

\* The session established, the roster extension not yet started.
InitRoster ==
    SessionInit /\ nc = NewClientReturned /\ ExtensionInit /\ PureInit

\* ------------------------------------------------------------ specifications
RegistrySteps == ReadStreamHandler \/ FilterSendHandlers
TlsSteps == TlsAdd1 \/ TlsWait1 \/ TlsAdd2 \/ TlsPublish \/ TlsWait2
ReaderSteps ==
    \/ ReadTransportCheck \/ ReadTransportLoad \/ ReadTransportRead
    \/ WaitForSocketDone1 \/ WaitForSocketPoll \/ WaitForSocketDone2
GateSteps == WriteStreamControl \/ WriteStreamRecv \/ WriteXmlRecvGate
WriterSteps == WriteXmlRecvFilter \/ WriteTransportRead \/ WriteTransportWrite
ChainSteps == FilterBottomRecv \/ FilterTopRecv
ExitSteps ==
    \/ ReadTransportExit \/ ReadXmlExit \/ WriteTransportExit \/ WriteXmlExit
    \/ SendOnClosedXmlOut
SpinSteps == WriteStreamRecvNil \/ ReadStreamRecvNil

\* The whole client, against a server that may send anything.
Next ==
    \/ \E e \in SrvAll : ReadStreamRecv(e)
    \/ RegistrySteps \/ TlsSteps \/ ReaderSteps \/ GateSteps \/ WriterSteps
    \/ ChainSteps \/ ExitSteps \/ SpinSteps
    \/ AppRecv \/ AppSend \/ AppCloseOut \/ ServerDisconnect
    \/ \E id \in Ids, ret \in BOOLEAN : HandleStanza(id, ret)

Spec == Init /\ [][Next]_vars

\* The outbound gate: a server that offers bind and answers the bind request,
\* an application that submits stanzas.
NextGate ==
    \/ \E e \in SrvBind \cup {ElStanza("message", 1, "chat")} : ReadStreamRecv(e)
    \/ RegistrySteps \/ GateSteps \/ WriterSteps \/ ChainSteps
    \/ AppRecv \/ AppSend

SpecGate == Init /\ [][NextGate]_vars

\* Correlation: a server that sends stanzas, an application that registers
\* handlers and receives.
SrvCorr ==
    {ElStanza("message", id, "chat") : id \in {NoId} \cup Ids}
    \cup {ElStanza("iq", 1, "result"), El("jabber:x:other", "x")}

NextCorr ==
    \/ \E e \in SrvCorr : ReadStreamRecv(e)
    \/ ReadStreamHandler \/ ChainSteps \/ AppRecv
    \/ \E id \in Ids, ret \in BOOLEAN : HandleStanza(id, ret)

SpecCorr == Init /\ [][NextCorr]_vars

\* Negotiation: a server that sends stream-level elements in any order.
NextNeg ==
    \/ \E e \in SrvFeatures \cup SrvTls \cup SrvSasl \cup SrvStream :
          ReadStreamRecv(e)
    \/ RegistrySteps \/ TlsSteps \/ ReaderSteps \/ WriterSteps

SpecNeg == Init /\ [][NextNeg]_vars

\* The TLS swap: the filter's handleTls against the transport reader.
NextTls ==
    \/ \E e \in SrvTls : ReadStreamRecv(e)
    \/ TlsSteps \/ ReaderSteps \/ WriterSteps

SpecTls == Init /\ [][NextTls]_vars

\* Cancellation: the application closes client.Out, the server may close the
\* connection; every task of the client takes the steps it can take.
ReadLoopSteps == ReadTransportCheck \/ ReadTransportLoad \/ ReadTransportRead

NextCancel ==
    \/ \E e \in {ElFeatures(FALSE, <<>>, TRUE, FALSE),
                 ElBindIq(1, "result", JidBound)} : ReadStreamRecv(e)
    \/ RegistrySteps \/ GateSteps \/ WriterSteps \/ ChainSteps \/ ReadLoopSteps
    \/ ExitSteps \/ SpinSteps
    \/ AppRecv \/ AppSend \/ AppCloseOut \/ ServerDisconnect

SpecCancel ==
    /\ Init /\ [][NextCancel]_vars
    /\ WF_vars(RegistrySteps) /\ WF_vars(GateSteps) /\ WF_vars(WriterSteps)
    /\ WF_vars(ChainSteps \/ AppRecv) /\ WF_vars(ReadLoopSteps)
    /\ WF_vars(ExitSteps)

\* The SASL exchange: a server that sends challenges of every shape.
QopLists ==
    {<<>>, <<"auth">>, <<"auth-int">>, <<"auth-int", " ", "auth">>,
     <<"auth-int", ",", "auth">>, <<"auth", ",", "auth-int">>}

SrvChallenges ==
    {ElChallenge(TRUE, q, "") : q \in QopLists}
    \cup {ElChallenge(TRUE, <<"auth">>, r) : r \in {SaslNext, "other"}}
    \cup {ElChallenge(FALSE, <<"auth">>, ""), El(NsSASL, "success")}

NextSasl ==
    \/ \E e \in SrvChallenges : ReadStreamRecv(e)
    \/ WriterSteps

SpecSasl == Init /\ [][NextSasl]_vars

\* NewClient, for every outcome of the lookup, the resolutions and the dials.
NextDial ==
    \/ \E ok \in BOOLEAN, l \in SrvLists : NewClientLookup(ok, l)
    \/ NewClientDial
    \/ NewClientReturn

SpecDial == InitDial /\ [][NextDial]_vars

\* The inbound chain with the roster extension: a server that sends messages,
\* presence and roster pushes, an application that starts the extension and
\* receives.
SrvRoster ==
    {ElStanza("message", NoId, "chat"), ElStanza("presence", NoId, ""),
     ElRoster(1, "set", <<Item("a", "both")>>),
     ElRoster(2, "set", <<Item("a", "to"), Item("b", "both")>>),
     ElRoster(2, "set", <<Item("a", "remove")>>),
     ElRoster(1, "result", <<Item("b", "to")>>)}

InstallSteps == FilterTopInstall \/ AddFilterReturn \/ StartFeedRoster
RosterFilterSteps == RosterFilterRecv \/ RosterUpdate \/ WriteStreamRecvReply
ReplySteps == WriteXmlRecvGate \/ WriteTransportRead \/ WriteTransportWrite

NextChain ==
    \/ \E e \in SrvRoster : ReadStreamRecv(e)
    \/ ChainSteps \/ AppRecv
    \/ InstallSteps \/ RosterFilterSteps \/ ReplySteps

SpecChain ==
    /\ InitRoster /\ [][NextChain]_vars
    /\ WF_vars(ChainSteps) /\ WF_vars(AppRecv) /\ WF_vars(InstallSteps)
    /\ WF_vars(RosterFilterSteps) /\ WF_vars(ReplySteps)

\* The roster feeder: the extension started, items arriving on rosterUpdate
\* in any order, the application asking for the roster at any time.
FeederStarted ==
    /\ topFilter = "bottom"
    /\ rf = [pc |-> "range", in |-> "bottom", st |-> Nil, items |-> <<>>,
             rosterUpdate |-> "nil"]
    /\ fr = [pc |-> "select", roster |-> EmptyRoster, snapshot |-> 1]
    /\ slices = <<{}>> /\ got = <<>> /\ applied = <<>> /\ replied = <<>>
    /\ fwd = <<>>

ExtensionStarted == FeederStarted /\ fx = FetchOff

InitFeed ==
    SessionInit /\ nc = NewClientReturned /\ ExtensionStarted /\ PureInit

NextFeed ==
    \/ \E it \in Items : FetchRosterUpdate(it)
    \/ AppRoster

SpecFeed == InitFeed /\ [][NextFeed]_vars

\* fetchRoster: the session established and the extension started, a server
\* that answers with roster results, errors and other stanzas.
SrvFetch ==
    {ElRoster(2, "result", <<Item("a", "both"), Item("b", "to")>>),
     ElRoster(2, "result", <<>>),
     ElRoster(2, "error", <<Item("a", "both")>>),
     ElStanza("iq", 2, "error"),
     ElRoster(1, "result", <<Item("b", "both")>>),
     ElStanza("message", NoId, "chat")}

InitFetch ==
    /\ SessionInit /\ nc = NewClientReturned /\ FeederStarted
    /\ fx = [FetchOff EXCEPT !.pc = "start"]
    /\ PureInit

FetchSteps == FetchRosterRegister \/ FetchRosterSend
ClosureSteps == FetchRosterItem \/ FetchRosterReturn

NextFetch ==
    \/ \E e \in SrvFetch : ReadStreamRecv(e)
    \/ ReadStreamHandler
    \/ FetchSteps \/ ClosureSteps \/ ReplySteps
    \/ ChainSteps \/ AppRecv

SpecFetch == InitFetch /\ [][NextFetch]_vars

\* Callbacks that wait for client.In: a server that sends stanzas, an
\* application that registers such callbacks and receives.
NextWait ==
    \/ \E e \in SrvCorr : ReadStreamRecv(e)
    \/ ReadStreamHandler \/ ChainSteps \/ AppRecv
    \/ \E id \in Ids : HandleStanzaWait(id)
    \/ HandlerRecvIn

SpecWait == Init /\ [][NextWait]_vars

\* Delivery: a server that sends one element of every kind readXml and
\* readStream tell apart, an application that receives.
SrvDeliver ==
    {El(NsStream, "stream"), El(NsStream, "error"), El("stream", "error"),
     ElFeatures(FALSE, <<>>, FALSE, FALSE), ElFeatures(FALSE, <<>>, TRUE, FALSE),
     El(NsTLS, "proceed"), El(NsTLS, "failure"), El(NsTLS, "starttls"),
     ElChallenge(TRUE, <<"auth">>, ""), El(NsSASL, "failure"),
     El(NsSASL, "success"), El("jabber:x:other", "x"),
     ElStanza("iq", 1, "result"), ElStanza("message", NoId, "chat"),
     ElStanza("presence", 2, "")}

NextDeliver ==
    \/ \E e \in SrvDeliver : ReadStreamRecv(e)
    \/ RegistrySteps \/ TlsSteps \/ ReaderSteps \/ WriterSteps
    \/ ChainSteps \/ AppRecv

SpecDeliver == Init /\ [][NextDeliver]_vars

\* JID.Set on every string of up to MaxJidLen characters, the receiver empty
\* or holding a JID.
JidChars == {"u", "U", "@", "/"}
JidStrings == SeqsUpTo(JidChars, MaxJidLen)
Receivers == {NoJID, [Node |-> <<"u">>, Domain |-> <<"u", "u">>, Resource |-> <<>>]}

InitJid ==
    /\ TasksInit /\ nc = NewClientReturned /\ ExtensionInit
    /\ jid \in Receivers /\ jidVal \in JidStrings /\ jidOk = "none"
    /\ FnInit

NextJid == JIDSetCall

SpecJid == InitJid /\ [][NextJid]_vars

\* stream.MarshalXML on every header whose fields are empty, plain or hold a
\* character xml.Escape replaces.
AttrValues == {"", "bob", "a<b"}
StreamHeaders ==
    [To : AttrValues, From : AttrValues, Id : AttrValues, Lang : AttrValues,
     Version : AttrValues]

InitMarshal ==
    /\ TasksInit /\ nc = NewClientReturned /\ ExtensionInit /\ JidInit
    /\ fnArg \in {[fn |-> "MarshalXML", s |-> h] : h \in StreamHeaders}
    /\ fnRes = NotReturned

NextMarshal == StreamMarshalCall

SpecMarshal == InitMarshal /\ [][NextMarshal]_vars

\* ParseStanza on documents that begin with a start element, with character
\* data or a processing instruction, or with nothing a token can be read
\* from.
FirstTokens == {"start", "chardata", "procinst", "syntax"}
RootNames == {"iq", "message", "presence", "foo"}
AttrNames == {"to", "from", "id", "type", "lang"}
Documents ==
    [first : {"start"}, local : RootNames, attrs : SUBSET AttrNames,
     error : BOOLEAN, complete : BOOLEAN]
    \cup [first : FirstTokens \ {"start"}, local : {"iq"}, attrs : {{}},
          error : {FALSE}, complete : {TRUE}]

InitParse ==
    /\ TasksInit /\ nc = NewClientReturned /\ ExtensionInit /\ JidInit
    /\ fnArg \in {[fn |-> "ParseStanza", doc |-> d] : d \in Documents}
    /\ fnRes = NotReturned

NextParse == ParseStanzaCall

SpecParse == InitParse /\ [][NextParse]_vars

\* parseExtended on stanzas with up to MaxKids children, called with the
\* constructor of a namespace one of the children is in.
ItemLists == {<<>>, <<Item("a", "both")>>, <<Item("a", "both"), Item("b", "to")>>}
Children == {ChildQuery(its) : its \in ItemLists} \cup {ChildBind, ChildOther, ChildError}
ExtStanzas ==
    [typ : StanzaTypes, From : {"", "from"}, Lang : {"", "en"},
     children : SeqsUpTo(Children, MaxKids) \ {<<>>}, Nested : {NoNested}]
Registered(st, con) ==
    \E k \in 1..Len(st.children) : extStanza(st.children[k].space) = con

InitExtend ==
    /\ TasksInit /\ nc = NewClientReturned /\ ExtensionInit /\ JidInit
    /\ fnArg \in {[fn |-> "parseExtended", st |-> st, con |-> con] :
                    st \in ExtStanzas, con \in {"newRosterQuery", "newBind"}}
    /\ Registered(fnArg.st, fnArg.con)
    /\ fnRes = NotReturned

NextExtend == ParseExtendedCall

SpecExtend == InitExtend /\ [][NextExtend]_vars

\* saslDigestResponse alone: the arguments of the test and their neighbours
\* (another user, realm, password, client nonce and digest-uri, and the empty
\* method saslDigest1 passes for the expected rspauth).
DigestArgs ==
    [fn : {"saslDigestResponse"}, username : {TxtChris, TxtJuliet},
     realm : {TxtElwood, TxtExample}, passwd : {TxtSecret, TxtPencil},
     nonce : {TxtNonce}, cnonceStr : {TxtCnonce, TxtCnonceHex},
     authenticate : {TxtAuthenticate, << >>},
     digestUri : {TxtImapUri, TxtXmppUri}, nonceCountStr : {TxtNonceCount}]

InitDigest ==
    /\ TasksInit /\ nc = NewClientReturned /\ ExtensionInit /\ JidInit
    /\ fnArg \in DigestArgs
    /\ fnRes = NotReturned

NextDigest == SaslDigestResponseCall

SpecDigest == InitDigest /\ [][NextDigest]_vars

\* The TLS swap under fair scheduling: the filter inside handleTls, the
\* transport reader and the writer tasks each take the steps they can take.
SpecTlsFair ==
    /\ Init /\ [][NextTls]_vars
    /\ WF_vars(TlsSteps) /\ WF_vars(ReaderSteps) /\ WF_vars(WriterSteps)

\* Register, then send: fetchRoster against a server that answers the
\* requests it has received.
NextOrder ==
    \/ \E e \in SrvFetch : ReadStreamRecvAnswer(e)
    \/ ReadStreamHandler
    \/ FetchSteps \/ ClosureSteps \/ ReplySteps
    \/ ChainSteps \/ AppRecv

SpecOrder == InitFetch /\ [][NextOrder]_vars

\* Self-registration: the server offers bind, the application registers
\* callbacks of its own; the filter and the writer tasks take the steps
\* they can take.
NextSelf ==
    \/ ReadStreamRecvBindOffer
    \/ RegistrySteps \/ WriterSteps
    \/ HandleStanzaLoop

SpecSelf ==
    /\ Init /\ [][NextSelf]_vars
    /\ WF_vars(RegistrySteps) /\ WF_vars(WriterSteps)

\* Re-registration: the application calls HandleStanza MaxReg times for the
\* same id; stanzas with that id arrive only after the last call.
SrvRereg ==
    {ElStanza("message", 1, "chat"), ElStanza("iq", 1, "result"),
     ElStanza("presence", 1, "")}

NextRereg ==
    \/ \E e \in SrvRereg : ReadStreamRecvLate(e)
    \/ ReadStreamRecv(ElStanza("message", NoId, "chat"))
    \/ ReadStreamHandler \/ ChainSteps \/ AppRecv
    \/ \E ret \in BOOLEAN : HandleStanza(1, ret)

SpecRereg == Init /\ [][NextRereg]_vars

\* Closing: the tasks end as under cancellation, and the server may send a
\* stream error, on which handleStreamError calls Client.Close.
NextClose ==
    \/ NextCancel
    \/ ReadStreamRecv(El(NsStream, "error"))

SpecClose == Init /\ [][NextClose]_vars

\* ------------------------------------------------------------------ properties
\* C1. Outbound gate: as long as bindDone has not been called, writeStream
\* has taken no stanza of the application: its input is nil, it holds
\* nothing, nothing of the application is in the XML writer, in the pump or
\* on the wire, and the first stanza the application submitted is still
\* blocked in its send on client.Out.
GateClosedUntilResume ==
    ~resumeRaised =>
        /\ input = "nil" /\ pcW = "select" /\ wx = Nil
        /\ vWX.app = 0 /\ vWT.app = 0
        /\ \A i \in 1..Len(wire) : wire[i].app = 0
        /\ nApp > 0 => (nApp = 1 /\ appSend = AppStanza(1))

\* The application is blocked in its send while the bind request is already
\* on the wire.
GateHoldsStanza ==
    /\ ~resumeRaised /\ appSend = AppStanza(1)
    /\ \E i \in 1..Len(wire) : wire[i].nested = "bind"

\* C2. One-shot correlation: no handler is invoked twice; a stanza whose id
\* has a handler in the registry invokes exactly that handler, once, and the
\* registry no longer holds it afterwards; a stanza whose id has no handler
\* in the registry invokes nothing and is sent on towards client.In; and
\* nothing but the receipt of a stanza invokes a handler.
InvokedOnce ==
    \A i, j \in 1..Len(invoked) : i # j => invoked[i].f # invoked[j].f

CorrelationStep ==
    /\ invoked' # invoked => (nIn' = nIn + 1 /\ IsStanza(x'))
    /\ (nIn' = nIn + 1 /\ IsStanza(x')) =>
          LET f == Lookup(handlers, x'.id)
          IN  IF f # NoF
              THEN /\ invoked' = Append(invoked, [f |-> f, id |-> x'.id])
                   /\ Lookup(handlers', x'.id) = NoF
              ELSE /\ invoked' = invoked
                   /\ pcF' = "cliOut" /\ out' = x'

VerdictStep ==
    (nIn' = nIn + 1 /\ IsStanza(x')) =>
        LET f == Lookup(handlers, x'.id)
        IN  /\ (pcF' = "cliOut" /\ out' = x') <=> (f = NoF \/ f.ret)
            /\ pcF' # "cliOut" => out' = Nil

HandlerVerdict == [][VerdictStep]_vars

\* One handler returned true and its stanza reached the application, another
\* returned false.
BothVerdictsSeen ==
    /\ \E i \in 1..Len(invoked) : ~invoked[i].f.ret
    /\ \E i \in 1..Len(invoked), k \in 1..Len(appIn) :
          invoked[i].f.ret /\ appIn[k].id = invoked[i].id

\* C4. TLS swap barrier: from the moment handleTls has wrapped the socket
\* until it publishes the TLS socket, readTransport is parked in
\* waitForSocket and is in no Read; once a swap is complete, readTransport
\* has left waitForSocket, cl.socket is the TLS socket, and the socket of
\* every Read is that TLS socket.
TlsPcs == {"tlsAdd1", "tlsWait1", "tlsAdd2", "tlsPublish", "tlsWait2"}
WaitPcs == {"waitDone1", "waitPoll", "waitDone2"}

TlsSwapBarrier ==
    /\ pcF \in {"tlsAdd2", "tlsPublish"} => (pcRT = "waitPoll" /\ rsock = NilSocket)
    /\ (cl.tls # NilSocket /\ pcF \notin TlsPcs) =>
          /\ pcRT \notin WaitPcs
          /\ cl.socket = cl.tls
          /\ pcRT = "read" => rsock = cl.tls

\* A swap is complete and readTransport is in a Read on the TLS socket.
ReadOnTlsSocket ==
    /\ cl.tls # NilSocket /\ pcF \notin TlsPcs
    /\ pcRT = "read" /\ rsock = cl.tls /\ rsock # TcpSocket

\* C5. Feature tie-break: a <stream:features> triggers at most one request,
\* chosen in the order starttls, mechanisms, bind: with starttls the
\* STARTTLS request and nothing else; else with mechanisms the SASL auth
\* (sent iff DIGEST-MD5 is among them) and no bind; else with bind the bind
\* request; else nothing.
FeaturesStep ==
    (nIn' = nIn + 1 /\ x'.typ = "Features") =>
        /\ cl'.Features = x'
        /\ IF x'.starttls
           THEN pcF' = "xmlOut" /\ out' = StarttlsReq /\ hout' = NoH /\ pend' = Nil
           ELSE IF x'.mechs # <<>>
           THEN /\ hout' = NoH /\ pend' = Nil /\ cl'.Id = cl.Id
                /\ IF \E i \in 1..Len(x'.mechs) : x'.mechs[i] = "DIGEST-MD5"
                   THEN pcF' = "xmlOut" /\ out'.typ = "auth" /\ out'.local = "auth"
                   ELSE pcF' = "select" /\ out' = Nil
           ELSE IF x'.bind
           THEN /\ pcF' = "handlers" /\ out' = Nil
                /\ hout'.f.kind = "bind" /\ hout'.id = pend'.id
                /\ pend'.typ = "Iq" /\ pend'.nested = "bind"
           ELSE pcF' = "select" /\ out' = Nil /\ hout' = NoH /\ pend' = Nil

FeatureTieBreak == [][FeaturesStep]_vars

\* The features offered mechanisms and bind, and only the SASL auth is sent.
SaslChosenOverBind ==
    /\ x.typ = "Features" /\ ~x.starttls /\ x.mechs # <<>> /\ x.bind
    /\ pcF = "xmlOut" /\ out.typ = "auth" /\ hout = NoH /\ pend = Nil

\* C6. A <failure> in the TLS namespace starts no TLS swap and no stream
\* restart: after it the filter is in no step of handleTls and sends no
\* stream header.
TlsFailureStartsNoSwap ==
    (x.typ = "starttls" /\ x.local = "failure") =>
        (pcF \notin TlsPcs /\ ~(pcF = "xmlOut" /\ out.typ = "stream"))

\* C7. Stream restart: a completed TLS swap and a SASL success each reset
\* cl.Features to nil and send one stream header, to the domain and with
\* version 1.0; a SASL challenge or failure sends no header; and the headers
\* sent are one more than the restarts.
Restarted ==
    /\ cl.Features = Nil
    /\ pcF = "xmlOut"
    /\ out = [Blank EXCEPT !.typ = "stream", !.to = cl.Jid.Domain, !.version = "1.0"]

RestartStep ==
    /\ (pcF = "tlsWait2" /\ pcF' # "tlsWait2") => Restarted'
    /\ (nIn' = nIn + 1 /\ x'.typ = "auth" /\ x'.local = "success") => Restarted'
    /\ (nIn' = nIn + 1 /\ x'.typ = "auth" /\ x'.local # "success") =>
          ~(pcF' = "xmlOut" /\ out'.typ = "stream")

HeadersSent ==
    Cardinality({i \in 1..Len(wire) : wire[i].typ = "stream"})
    + (IF vWX.typ = "stream" THEN 1 ELSE 0) + (IF vWT.typ = "stream" THEN 1 ELSE 0)
    + (IF pcF = "xmlOut" /\ out.typ = "stream" THEN 1 ELSE 0)

StreamRestart == [](HeadersSent = 1 + restarts) /\ [][RestartStep]_vars

\* After a TLS swap and a SASL success, the second
\* restart is under way with the features forgotten.
RestartAfterSuccess ==
    /\ cl.tls # NilSocket /\ x.typ = "auth" /\ x.local = "success"
    /\ Restarted /\ restarts = 2

\* C8. A stream error, in either of its two forms, calls Client.Close and
\* is not sent on towards client.In, whatever the state of the negotiation.
StreamErrorStep ==
    (nIn' = nIn + 1 /\ x'.typ = "streamError") =>
        /\ closeCalls' = closeCalls + 1
        /\ pcF' = "select" /\ out' = Nil

NoStreamErrorDelivered ==
    /\ out.typ # "streamError" /\ fbData.typ # "streamError"
    /\ ftData.typ # "streamError"
    /\ \A i \in 1..Len(appIn) : appIn[i].typ # "streamError"

StreamErrorCloses == [](NoStreamErrorDelivered) /\ [][StreamErrorStep]_vars

\* A stream error arrived in the middle of the SASL exchange.
StreamErrorDuringSasl ==
    /\ cl.saslExpected # "" /\ x.typ = "streamError" /\ closeCalls = 1

\* C9. Cancellation cascade: once the application has closed client.Out,
\* every task of the pipeline eventually ends and client.In is eventually
\* closed (a process ended by a runtime panic counts as ended).
AllTasksDone ==
    /\ pcW = "done" /\ pcWX = "done" /\ pcWT = "done"
    /\ pcRT = "done" /\ pcRX = "done" /\ pcF = "done"
    /\ pcFB = "done" /\ pcFT = "done"

CancellationCascade ==
    ("Out" \in closed) ~> (panicked # "" \/ (AllTasksDone /\ "In" \in closed))

\* C10. A SASL <failure> terminates the client: once it is received,
\* Client.Close has been called.
SaslFailureCloses ==
    (x.typ = "auth" /\ x.local = "failure") => closeCalls > 0

\* C11. SASL rounds: a challenge that decodes, received with saslExpected
\* empty and with a qop the client accepts, is answered by the digest
\* response and stores the expected rspauth; a challenge that decodes,
\* received after that, is answered with exactly one element, the empty
\* <response/> if its rspauth equals the stored value and
\* <failure><abort/></failure> otherwise, and leaves the stored value alone;
\* a challenge that does not decode is answered with nothing.
IsChallenge(v) == v.typ = "auth" /\ v.local = "challenge"

AbortOut == [AuthOut("failure") EXCEPT !.nested = "abort"]

SecondRoundAnswer ==
    /\ pcF' = "xmlOut" /\ cl'.saslExpected = cl.saslExpected
    /\ out' = IF x'.rspauth = cl.saslExpected THEN AuthOut("response") ELSE AbortOut

SaslRoundsStep ==
    (nIn' = nIn + 1 /\ IsChallenge(x')) =>
        IF ~x'.b64ok THEN pcF' = "select" /\ out' = Nil /\ cl' = cl
        ELSE IF cl.saslExpected # "" THEN SecondRoundAnswer
        ELSE /\ \/ /\ pcF' = "xmlOut" /\ cl'.saslExpected = SaslNext
                   /\ out'.local = "response" /\ out'.rspauth = "digest"
                \/ pcF' = "select" /\ out' = Nil /\ cl' = cl
             /\ x'.qop = <<"auth">> => pcF' = "xmlOut"

LaterChallengeStep ==
    (nIn' = nIn + 1 /\ IsChallenge(x') /\ cl.saslExpected # "") => SecondRoundAnswer

QopOffersAuth(raw) == \E i \in 1..Len(raw) : raw[i] = "auth"

QopStep ==
    (nIn' = nIn + 1 /\ IsChallenge(x') /\ x'.b64ok /\ cl.saslExpected = "") =>
        IF QopOffersAuth(x'.qop)
        THEN pcF' = "xmlOut" /\ out'.local = "response"
        ELSE pcF' = "select" /\ out' = Nil /\ cl'.saslExpected = ""

QopCheck == [][QopStep]_vars

\* C13. Resource binding: when the stanza correlated with the bind request
\* is a result whose bind payload carries the JID u@h/r, cl.Jid becomes the
\* JID with node u, domain h and resource r and bindDone is called; when it
\* has type error, carries no bind payload, carries no jid, or carries a jid
\* that does not parse, cl.Jid stays as it was and bindDone is not called.
\* In every case the stanza is not sent on towards client.In.
BindStep ==
    (nIn' = nIn + 1 /\ IsStanza(x') /\ Lookup(handlers, x'.id).kind = "bind") =>
        /\ pcF' # "cliOut" /\ out' = Nil
        /\ IF x'.type = "result" /\ x'.nested = "bind" /\ x'.jid = JidBound
           THEN /\ cl'.Jid = [Node |-> <<"u">>, Domain |-> <<"h">>,
                              Resource |-> <<"r">>]
                /\ pcF' = "control" /\ resumeRaised'
           ELSE /\ cl'.Jid = cl.Jid /\ pcF' = "select"
                /\ resumeRaised' = resumeRaised

ResourceBinding == [][BindStep]_vars

\* The bind reply carried u@h/r: the client's JID has the resource and the
\* gate has been told to open.
ResourceBound ==
    /\ x.nested = "bind" /\ x.type = "result" /\ x.jid = JidBound
    /\ cl.Jid.Resource = <<"r">> /\ resumeRaised /\ input = "cliIn"

\* C14. Outbound ordering: the stanzas of the application that are on the
\* wire, then the one in the pump, the one in the XML writer, the one
\* writeStream holds and the one the application is still sending, are the
\* stanzas it submitted, in the order submitted, each once.
AppIds(q) == [i \in 1..Len(q) |-> q[i].app]

Outbound ==
    SelectSeq(wire \o <<vWT, vWX, wx, appSend>>, LAMBDA v : v.app > 0)

OutboundOrdering == AppIds(Outbound) = [i \in 1..nApp |-> i]

\* All the stanzas the application may submit are on the wire.
AllSubmittedOnWire ==
    /\ nApp = MaxApp /\ nApp >= 2
    /\ AppIds(SelectSeq(wire, LAMBDA v : v.app > 0)) = [i \in 1..nApp |-> i]

\* C15: inbound ordering.  What the application has received on client.In is
\* the beginning of what readStream sent on cliOut, stanza for stanza: the
\* chain of filterBottom, the installed filter and filterTop delivers in the
\* order of arrival, nothing twice, and no stanza while an earlier one is
\* undelivered.
InboundOrdering ==
    /\ Len(appIn) <= Len(fwd)
    /\ \A k \in 1..Len(appIn) : appIn[k] = fwd[k]

\* C16: NewClient stops at the first target that dials successfully.  Once a
\* dial has succeeded it is the last dial made, tcp holds its connection,
\* and the Client NewClient returns uses it.
SuccessfulDials == {k \in 1..Len(nc.dials) : nc.dials[k].ok}
FirstSuccess == CHOOSE k \in SuccessfulDials : \A m \in SuccessfulDials : k <= m
DialStopsAtFirstSuccess ==
    SuccessfulDials # {} =>
        /\ FirstSuccess = Len(nc.dials)
        /\ nc.tcp = nc.dials[FirstSuccess].target
        /\ nc.pc = "returned" =>
              /\ nc.ret.client = "client"
              /\ nc.ret.conn = nc.dials[FirstSuccess].target

\* C17: NewClient failure.  When NewClient returns no client it returns an
\* error: never (nil, nil).
NewClientFailureHasError ==
    (nc.pc = "returned" /\ nc.ret.client = "nil") => nc.ret.err # ""

\* C18: roster cache update.  After any sequence of items applied to an
\* initially empty cache, the cache holds, under each jid, the last item
\* applied for that jid, and nothing for a jid whose last item has
\* subscription "remove".
LastItems(n) ==
    {applied[k] : k \in {i \in 1..n :
                            /\ applied[i].sub # "remove"
                            /\ \A m \in (i + 1)..n :
                                  applied[m].jid # applied[i].jid}}
RosterCacheUpdate ==
    /\ RosterValues(fr.roster) = LastItems(Len(applied))
    /\ \A j \in DOMAIN fr.roster : fr.roster[j].jid = j
    /\ Cardinality(DOMAIN fr.roster) = Cardinality(LastItems(Len(applied)))

\* An item replaced and then removed, another jid kept.
RemovedAfterReplace ==
    /\ applied = <<Item("a", "to"), Item("b", "both"), Item("a", "both"),
                   Item("a", "remove")>>
    /\ DOMAIN fr.roster = {"b"}

\* C19: roster snapshot.  Every slice Roster has returned holds the cache as
\* it was after the last item applied before the slice was handed out, and
\* holds it still, whatever was applied since.
RosterSnapshot ==
    \A k \in 1..Len(got) : slices[got[k].slice] = LastItems(got[k].n)

\* A snapshot returned after an update, and the cache changed since.
SnapshotOutlivesUpdate ==
    \E k \in 1..Len(got) :
        /\ got[k].n > 0 /\ got[k].n < Len(applied)
        /\ slices[got[k].slice] # RosterValues(fr.roster)

\* C20: roster push.  Every iq of type set with a roster query that the
\* roster filter has taken, the feeder running, is in the end delivered to
\* the application as it came, after its items were applied to the cache
\* and one result iq with its id was sent on client.Out.
RosterPushes == {readXml(e) : e \in {p \in SrvRoster : IsRosterPush(p)}}
PushTaken(p) ==
    /\ rf.st = p /\ rf.pc \in {"update", "reply", "out"}
    /\ rf.rosterUpdate = "rosterUpdate"
PushDone(p) ==
    /\ \E k \in 1..Len(appIn) : appIn[k] = p
    /\ \E k \in 1..Len(replied) : replied[k] = p.id
    /\ \A i \in 1..Len(p.items) : \E k \in 1..Len(applied) : applied[k] = p.items[i]
RosterPushForwarded == \A p \in RosterPushes : PushTaken(p) ~> PushDone(p)
\* C21: Roster fetch.  fetchRoster registers its handler before it sends the
\* roster get: from the moment the request is on its way until fetchRoster
\* returns, the closure is queued on client.handlers, held by the registry,
\* or running.  fetchRoster returns only when the closure has given every
\* item of the stanza it was called with to feedRoster, in order (a nil
\* return means the cache was fed exactly those items), and the filter goes
\* from the closure back to its select: the stanza is not sent towards
\* client.In.
FetchHandlerQueued ==
    \E k \in 1..Len(cl.handlers) :
        cl.handlers[k] = [id |-> fx.id, f |-> RosterF(fx.id)]
FetchHandlerHeld ==
    fx.id \in DOMAIN handlers /\ handlers[fx.id] = RosterF(fx.id)
FetchHandlerRunning == pcF \in {"fetchItems", "fetchCh"}
FetchRegisteredFirst ==
    fx.pc \in {"out", "wait"} =>
        FetchHandlerQueued \/ FetchHandlerHeld \/ FetchHandlerRunning
FetchReturnsAfterItems ==
    fx.pc = "returned" =>
        /\ fx.ret = "" => (fx.reply.nested = "roster" /\ applied = fx.reply.items)
        /\ fx.ret # "" => applied = <<>>
FetchNotDelivered ==
    FetchHandlerRunning =>
        /\ pcF' \in {"fetchItems", "fetchCh", "select"}
        /\ (fx'.pc = "returned" /\ fx.pc = "wait") => pcF' = "select"
RosterFetch ==
    /\ [](FetchRegisteredFirst /\ FetchReturnsAfterItems)
    /\ [][FetchNotDelivered]_vars

FetchedTwoItems ==
    /\ fx.pc = "returned" /\ fx.ret = "" /\ fx.reply.type = "result"
    /\ Len(fx.reply.items) = 2 /\ applied = fx.reply.items
    /\ pcF = "select"

\* C22: Correlated iq error.  When the reply the closure was called with has
\* type error, fetchRoster returns a non-nil error and no item of the reply
\* has been given to feedRoster.
FetchErrorReported ==
    (fx.pc = "returned" /\ fx.reply.type = "error") =>
        (fx.ret # "" /\ applied = <<>>)
\* C23: Handlers run on the filter task.  While a callback is executing,
\* the stream filter sends no stanza towards client.In, takes no
\* registration from client.handlers and takes no further inbound value.
\* A callback that waits to receive from client.In returns only by taking
\* a stanza filterTop holds, one the filter had sent on before it called the
\* callback; once filterBottom and filterTop hold nothing it never returns.
HandlerRunning == pcF \in {"handlerIn", "fetchItems", "fetchCh"}
ChainEmpty == pcFB = "recv" /\ pcFT = "select"
FilterIdleInHandler ==
    HandlerRunning =>
        /\ handlers' = handlers
        /\ Len(cl'.handlers) >= Len(cl.handlers)
        /\ nIn' = nIn /\ x' = x
        /\ ~(pcFB = "recv" /\ pcFB' = "send")
HandlerReturnsOnlyWithStanza ==
    (pcF = "handlerIn" /\ pcF' # "handlerIn") =>
        (pcFT = "send" /\ pcF' = "select" /\ ftData' = Nil /\ appIn' = appIn)
HandlerStuckOnEmptyChain ==
    (pcF = "handlerIn" /\ ChainEmpty) => (pcF' = "handlerIn" /\ ChainEmpty')
AddFilterReturned == rf.pc \notin {"start", "filterIn"}
FilterTopTakesFromBottom ==
    /\ pcFB = "send" /\ pcFB' = "recv"
    /\ pcFT = "select" /\ pcFT' = "send" /\ ftData' = fbData
NoStanzaBypassesFilter ==
    [][AddFilterReturned => ~FilterTopTakesFromBottom]_vars
\* C25: Only stanzas reach the application.  Every value delivered on
\* client.In, and every value on its way there, is an Iq, a Message or a
\* Presence of jabber:client; stream headers, features, TLS and SASL
\* elements, stream errors and generic elements are not among them.
Deliverable(v) ==
    /\ v.typ \in {"Iq", "Message", "Presence"}
    /\ v.space = NsClient /\ v.local \in {"iq", "message", "presence"}
OnlyStanzasDelivered ==
    /\ \A k \in 1..Len(appIn) : Deliverable(appIn[k])
    /\ \A k \in 1..Len(fwd) : Deliverable(fwd[k])
    /\ pcF = "cliOut" => Deliverable(out)
    /\ pcFB = "send" => Deliverable(fbData)
    /\ pcFT = "send" => Deliverable(ftData)

\* Three values consumed, two of them no stanzas, one stanza delivered.
StanzaAmongControlElements ==
    /\ Running /\ nIn = 3 /\ Len(appIn) = 1 /\ fwd = appIn
    /\ invoked = <<>> /\ pcF = "select"
\* C26: JID round-trip.  For every string node@domain/resource (node and
\* resource optional) that JID.Set accepts, the parsed JID holds Nodeprep of
\* the node, Nodeprep of the domain and Resourceprep of the resource, absent
\* parts empty; String() is the string with its node and domain so
\* prepared, and equals the string when the preparation changes nothing.
PlainParts == SeqsUpTo({"u", "U"}, MaxPart)
JidForms == {t \in PlainParts \X PlainParts \X PlainParts : t[2] # <<>>}
Compose(n, d, r) ==
    (IF n # <<>> THEN n \o <<"@">> ELSE <<>>) \o d
        \o (IF r # <<>> THEN <<"/">> \o r ELSE <<>>)
Prepared(t) == <<Nodeprep(t[1]), Nodeprep(t[2]), Resourceprep(t[3])>>
JidPreparedRoundTrip ==
    jidOk = "true" =>
        \A t \in JidForms :
            Compose(t[1], t[2], t[3]) = jidVal =>
                LET p == Prepared(t)
                IN  /\ jid = [Node |-> p[1], Domain |-> p[2], Resource |-> p[3]]
                    /\ JIDString(jid) = Compose(p[1], p[2], p[3])
                    /\ p = t => JIDString(jid) = jidVal

FullJidRoundTrip ==
    /\ jidOk = "true" /\ jidVal = <<"u", "@", "u", "/", "U">>
    /\ jid = [Node |-> <<"u">>, Domain |-> <<"u">>, Resource |-> <<"U">>]
    /\ JIDString(jid) = jidVal

\* C26 as stated: String() of the parsed JID equals the string given to Set.
JidRoundTrip == jidOk = "true" => JIDString(jid) = jidVal

\* C27: JID parsing is total.  JID.Set returns true exactly for the strings
\* that match ^(([^@/]+)@)?([^@/]+)(/([^@/]+))?$, false for every other
\* string (the empty string, an empty domain, more than one "@" or "/"), and
\* leaves the receiver as it was when it returns false.
Plain(str, a, b) == \A k \in a..b : str[k] \notin {"@", "/"}
RegexMatch(str) ==
    \E i \in 0..Len(str), j \in 1..(Len(str) + 1) :
        /\ i < j
        /\ i > 0 => (str[i] = "@" /\ i > 1 /\ Plain(str, 1, i - 1))
        /\ j - i > 1 /\ Plain(str, i + 1, j - 1)
        /\ j <= Len(str) => (str[j] = "/" /\ j < Len(str)
                             /\ Plain(str, j + 1, Len(str)))
NamedRejects(str) ==
    \/ str = <<>>
    \/ Cardinality(Positions(str, "@")) > 1
    \/ Cardinality(Positions(str, "/")) > 1
    \/ \E k \in 1..Len(str) : str[k] = "@" /\ (k = Len(str) \/ str[k + 1] = "/")
    \/ str[1] = "/"
JidSetDecides ==
    jidOk # "none" =>
        /\ jidOk \in {"true", "false"}
        /\ jidOk = "true" <=> RegexMatch(jidVal)
        /\ NamedRejects(jidVal) => jidOk = "false"
JidSetKeepsReceiver == jidOk' = "false" => jid' = jid
JidSetTotal == []JidSetDecides /\ [][JidSetKeepsReceiver]_vars

RejectedKeepsReceiver ==
    /\ jidOk = "false" /\ jidVal = <<"u", "@", "/", "u">>
    /\ jid = [Node |-> <<"u">>, Domain |-> <<"u", "u">>, Resource |-> <<>>]
\* C28: Stream header serialisation.  The output of stream.MarshalXML is
\* the opening tag <stream:stream, the two namespace bindings, then the
\* attributes to, from, id, xml:lang, version in that order, exactly those
\* whose value is not empty, each with its escaped value, then ">"; it holds
\* no closing </stream:stream> tag.
RECURSIVE AttrsOf(_)
AttrsOf(buf) ==
    IF Len(buf) < 5 THEN <<>>
    ELSE IF buf[1] = " " /\ buf[3] = "=\"" /\ buf[5] = "\""
         THEN <<[name |-> buf[2], value |-> buf[4]]>>
                  \o AttrsOf(SubSeq(buf, 6, Len(buf)))
         ELSE AttrsOf(Tail(buf))
HeaderAttrs(s) ==
    <<[name |-> "to", value |-> s.To], [name |-> "from", value |-> s.From],
      [name |-> "id", value |-> s.Id], [name |-> "xml:lang", value |-> s.Lang],
      [name |-> "version", value |-> s.Version]>>
NonEmptyEscaped(attrs) ==
    LET kept == SelectSeq(attrs, LAMBDA a : a.value # "")
    IN  [k \in 1..Len(kept) |->
            [name |-> kept[k].name, value |-> Escape(kept[k].value)]]
StreamHeaderSerialisation ==
    fnRes.done =>
        LET o == fnRes.out
            attrs == AttrsOf(o)
        IN  /\ o[1] = "<stream:stream" /\ o[Len(o)] = ">"
            /\ Len(o) = 2 + 5 * Len(attrs)
            /\ attrs = <<[name |-> "xmlns", value |-> NsClient],
                         [name |-> "xmlns:stream", value |-> NsStream]>>
                       \o NonEmptyEscaped(HeaderAttrs(fnArg.s))
            /\ \A k \in 1..Len(o) :
                  /\ o[k] # "</stream:stream>"
                  /\ o[k] = ">" => k = Len(o)

HeaderWithLangOnly ==
    /\ fnRes.done
    /\ fnArg.s = [To |-> "", From |-> "", Id |-> "", Lang |-> "a<b", Version |-> ""]
    /\ fnRes.out = <<"<stream:stream", " ", "xmlns", "=\"", NsClient, "\"",
                     " ", "xmlns:stream", "=\"", NsStream, "\"",
                     " ", "xml:lang", "=\"", "a&lt;b", "\"", ">">>
\* C29: ParseStanza dispatch.  For a complete document whose root is named
\* iq, message or presence, ParseStanza returns no error and a stanza of the
\* matching variant whose name is the root's and whose to, from, id, type
\* and xml:lang are the root's attributes, empty where the root has none,
\* with an error child only if the root has one.  For any other root name,
\* and for a first token that is not a start element, it returns an error
\* and no stanza.
VariantOf(local) ==
    IF local = "iq" THEN "Iq" ELSE IF local = "message" THEN "Message"
    ELSE "Presence"
ParseStanzaDispatch ==
    fnRes.done =>
        LET d == fnArg.doc
            r == fnRes.out
        IN  /\ (d.first = "start" /\ d.local \in {"iq", "message", "presence"}
                /\ d.complete) =>
                  /\ r.err = "" /\ r.stan.typ = VariantOf(d.local)
                  /\ GetName(r.stan) = d.local
                  /\ r.stan.To = (IF "to" \in d.attrs THEN "alice" ELSE "")
                  /\ r.stan.From = (IF "from" \in d.attrs THEN "bob" ELSE "")
                  /\ r.stan.Id = (IF "id" \in d.attrs THEN "1" ELSE "")
                  /\ r.stan.Type = (IF "type" \in d.attrs THEN "A" ELSE "")
                  /\ r.stan.Lang = (IF "lang" \in d.attrs THEN "en" ELSE "")
                  /\ r.stan.Error = d.error
            /\ (d.first # "start" \/ d.local \notin {"iq", "message", "presence"}) =>
                  (r.err # "" /\ r.stan = NoStanza)
            /\ r.err # "" <=> r.stan = NoStanza

MessageParsed ==
    /\ fnRes.done /\ fnArg.doc.first = "start" /\ fnArg.doc.local = "message"
    /\ fnArg.doc.attrs = {"to", "from"} /\ ~fnArg.doc.error
    /\ fnRes.out.err = "" /\ fnRes.out.stan.typ = "Message"
    /\ fnRes.out.stan.To = "alice" /\ fnRes.out.stan.From = "bob"
    /\ fnRes.out.stan.Id = "" /\ fnRes.out.stan.Lang = ""
\* C30: Extension unmarshal.  For a stanza with a child element in the
\* namespace the constructor is registered for, parseExtended returns no
\* error and the stanza's nested payload is the one value the constructor
\* built, for the roster namespace a RosterQuery with exactly the items of
\* such a child; the stanza's name, from and xml:lang stay as they were.
BuiltFrom(v, c, con) ==
    /\ extStanza(c.space) = con /\ v.type = construct(con).type
    /\ con = "newRosterQuery" => v.Item = c.items
ExtensionUnmarshal ==
    fnRes.done =>
        LET st == fnArg.st
            r == fnRes.out
        IN  /\ r.err = ""
            /\ \E k \in 1..Len(st.children) :
                  BuiltFrom(r.st.Nested, st.children[k], fnArg.con)
            /\ r.st.typ = st.typ /\ r.st.From = st.From /\ r.st.Lang = st.Lang

\* C31: saslDigestResponse reproduces the test vector of RFC 2831, section 4:
\* called with "chris", "elwood.innosoft.com", "secret", "OA6MG9tEQGm2hh",
\* "OA6MHXh6VqTrRk", "AUTHENTICATE", "imap/elwood.innosoft.com" and
\* "00000001" it returns "d388dad90d4bbd760a152321f2143af7".
DigestTestVector ==
    (fnArg = TestSaslDigestArgs /\ fnRes.done) => fnRes.out = TxtExpected

\* The test's call has returned, with a digest of thirty-two characters.
TestSaslDigestReturned ==
    fnArg = TestSaslDigestArgs /\ fnRes.done /\ Len(fnRes.out) = 32

\* C32. SASL mechanism not offered: once the filter has received a features
\* advertisement without starttls whose mechanisms do not include DIGEST-MD5
\* (in any letter case), it sends no <auth> and the negotiation has failed
\* with an error for the caller: Client.Close has been called or the failure
\* has been raised; the client does not just go on waiting.
MechanismNotOffered(v) ==
    /\ v.typ = "Features" /\ ~v.starttls /\ Len(v.mechs) > 0
    /\ \A i \in 1..Len(v.mechs) : ToLower(v.mechs[i]) # "digest-md5"

MechanismNotOfferedFails ==
    MechanismNotOffered(x) =>
        /\ out = Nil
        /\ closeCalls > 0 \/ panicked # ""

\* C33. TLS swap progress: once handleTls has started, with the transport
\* reader running and every task scheduled fairly, handleTls passes both
\* barrier waits and sends the new stream header, and the filter is back at
\* its select; the swap never blocks the filter's task forever.
InHandleTls == pcF \in {"tlsAdd1", "tlsWait1", "tlsAdd2", "tlsPublish", "tlsWait2"}

TlsSwapProgress == InHandleTls ~> (pcF = "select" /\ restarts > 0)

\* C34. Barrier counter: in every interleaving of handleTls and the reader
\* the socketSync counter is never negative; each Done of waitForSocket
\* comes after the Add(1) of handleTls it answers.
BarrierCounterNonNegative ==
    cl.socketSync >= 0 /\ panicked # "sync: negative WaitGroup counter"

\* C35. No use of a nil socket: neither the transport reader nor the
\* transport writer calls Read or Write on client.socket while the slot
\* holds nil.
NilSocketFailures == {"readTransport: nil socket", "writeTransport: nil socket"}

NoNilSocketUse == panicked \notin NilSocketFailures

\* C36. Register, then send: HandleStanza(id, f) has returned before the
\* request is sent, so the first stanza the filter receives with that id,
\* the reply, is passed to f: the filter never processes the reply before
\* the registration.
ReplyPassedToHandler ==
    (/\ nIn' = nIn + 1 /\ IsStanza(x') /\ x'.id = fx.id
     /\ fx.pc = "wait"
     /\ \A i \in 1..Len(invoked) : invoked[i].id # fx.id)
    => invoked' = Append(invoked, [f |-> RosterF(fx.id), id |-> fx.id])

RegisterThenSend == [][ReplyPassedToHandler]_vars

\* C37. Self-registration does not deadlock: bind, on the filter's task,
\* sends its registration on client.handlers, whose only receiver is that
\* task; the send completes, the bind iq is sent and the filter is back at
\* its select.
SelfRegistrationCompletes == (pcF = "handlers") ~> (pcF = "select")

IsLastCallback(f) == f.kind = "app" /\ f.tok = MaxReg

LaterCallbackOnly ==
    /\ Len(invoked) <= 1
    /\ \A k \in 1..Len(invoked) : IsLastCallback(invoked[k].f)
    /\ (cl.handlers = <<>> /\ nReg = MaxReg /\ invoked = <<>>) =>
           IsLastCallback(Lookup(handlers, 1))

FirstStanzaInvokesLater ==
    (/\ nIn' = nIn + 1 /\ x'.id = 1
     /\ invoked = <<>> /\ \A k \in 1..Len(fwd) : fwd[k].id # 1)
    => (Len(invoked') = 1 /\ IsLastCallback(invoked'[1].f))

ReRegistration == []LaterCallbackOnly /\ [][FirstStanzaInvokesLater]_vars

\* C40. Idempotent closure: tryClose never fails, whatever was closed before
\* or is closed by another task's deferred tryClose at the same time, and
\* once a call has returned everything passed to it is closed: the socket
\* and the pipe ends of the four transport and XML tasks, and client.In and
\* client.Out after Client.Close.
ClosedAfterTryClose ==
    /\ pcRT = "done" => {"socket", "inPipeW"} \subseteq closed
    /\ pcRX = "done" => {"inPipeR", "srvIn"} \subseteq closed
    /\ pcWT = "done" => {"outPipeR", "socket"} \subseteq closed
    /\ pcWX = "done" => {"outPipeW", "xmlOut"} \subseteq closed
    /\ closeCalls > 0 => {"In", "Out"} \subseteq closed

IdempotentClosure == ClosedAfterTryClose /\ panicked \notin {"close of closed channel", "close of nil channel"}

====
